---- MODULE Spec2Model ----
(***************************************************************************)
(* Model of the LED animation virtual machine of animation.c               *)
(* (Animation_Init, Animation_Cycle, Animation_Set, SaturateBrightness)    *)
(* together with the brightness arrays of led.c and rgbled.c.              *)
(*                                                                         *)
(* Arrays are functions over 0 .. n-1 as in C.  Instruction tables are     *)
(* sequences: instruction k of the source is element k+1 of the sequence.  *)
(* U8 values are 0 .. 255, U16 values 0 .. 65535; a negative initialiser   *)
(* of the tables is stored as its two's complement, as the compiler does.  *)
(***************************************************************************)
EXTENDS Integers, Sequences, FiniteSets, TLC

(***************************** fixed-width integers ************************)
U8(x) == x % 256

U16(x) == x % 65536

\* (I8) cast of a U8 value
I8(x) == IF x >= 128 THEN x - 256 ELSE x

(******************************* program constants *************************)
LEDS_NUM == 7

NUM_RGBLED_COLORS == 4

RIGHT_LEDS_START == 6

\* sentinel "no instruction executed yet" of u8LastState / u8LastStateRGB
NO_STATE == 255

LOAD == 0

ADD == 1

RSHIFT == 2

LSHIFT == 4

DIV == 16

USOURCE == 32

DSOURCE == 64

REPEAT == 128

\* ( bit & opcode ) != 0 for a single-bit mask
HasBit(bit, u8OpCode) == (u8OpCode \div bit) % 2 = 1

(******************************* animation tables **************************)
\* brace initialiser of a U8 array: 0-based, negative values wrap to U8
Vec(t) == [i \in 0 .. (Len(t) - 1) |-> U8(t[i + 1])]

\* S_ANIMATION_INSTRUCTION_NORMAL
InstrN(t, v, op, n) ==
  [u16TimingMs |-> t, au8Brightness |-> Vec(v), u8AnimationOpcode |-> op, u8AnimationOperand |-> n]

\* S_ANIMATION_INSTRUCTION_RGB
InstrR(t, v, op, n) ==
  [u16TimingMs |-> t, au8Brightness |-> Vec(v), u8AnimationOpcode |-> op, u8AnimationOperand |-> n]

\* elements of an array that the initialiser list leaves out are zero
ZeroNormal == InstrN(0, <<0, 0, 0, 0, 0, 0, 0>>, LOAD, 0)

ZeroRGB == InstrR(0, <<0, 0, 0, 0>>, LOAD, 0)

gasKITT == <<
  InstrN(200, << 0,  0,  0,  0,  0,  0,  0>>, LOAD, 0),
  InstrN(100, << 5,  0,  0,  0,  0,  0,  0>>, LOAD, 0),
  InstrN(100, <<10,  5,  0,  0,  0,  0,  0>>, LOAD, 0),
  InstrN(100, <<15, 10,  5,  0,  0,  0,  0>>, LOAD, 0),
  InstrN(100, <<10, 15, 10,  5,  0,  0,  0>>, LOAD, 0),
  InstrN(100, << 5, 10, 15, 10,  5,  0,  0>>, LOAD, 0),
  InstrN(100, << 0,  5, 10, 15, 10,  5,  0>>, LOAD, 0),
  InstrN(100, << 0,  0,  5, 10, 15, 10,  5>>, LOAD, 0),
  InstrN(100, << 0,  0,  5, 10, 10, 15, 10>>, LOAD, 0),
  InstrN(100, << 0,  0,  0,  5, 10, 10, 15>>, LOAD, 0),
  InstrN(100, << 0,  0,  0,  0,  5, 10, 10>>, LOAD, 0),
  InstrN(100, << 0,  0,  0,  0,  0,  5, 10>>, LOAD, 0),
  InstrN(100, << 0,  0,  0,  0,  0,  0,  5>>, LOAD, 0),
  InstrN(200, << 0,  0,  0,  0,  0,  0,  0>>, LOAD, 0) >>

gasKITTRGB == <<
  InstrR(100, << 0,  0,  0,  0>>, LOAD, 0),
  InstrR(100, << 5,  0,  0,  0>>, ADD + REPEAT, 2),
  InstrR( 50, << 0,  5,  0,  0>>, ADD + REPEAT, 2),
  InstrR( 50, << 0,  0,  5,  0>>, ADD + REPEAT, 2),
  InstrR( 50, << 0,  0,  0,  5>>, ADD + REPEAT, 2),
  InstrR(750, <<15, 15, 15, 15>>, LOAD, 0) >>

\* declared with 13 elements, 3 of them initialised
gasAnimation2 == <<
  InstrN(115, << 0,  0,  0,  0,  0,  0,  0>>, LOAD, 0),
  InstrN(115, << 3,  3,  3,  3,  3,  3,  3>>, ADD + REPEAT, 4),
  InstrN(115, <<-3, -3, -3, -3, -3, -3, -3>>, ADD + REPEAT, 4),
  ZeroNormal, ZeroNormal, ZeroNormal, ZeroNormal, ZeroNormal,
  ZeroNormal, ZeroNormal, ZeroNormal, ZeroNormal, ZeroNormal >>

\* declared with 6 elements, 3 of them initialised
gasAnimation2RGB == <<
  InstrR(115, << 0,  0,  0,  0>>, LOAD, 0),
  InstrR(115, << 3,  3,  3,  3>>, ADD + REPEAT, 4),
  InstrR(115, <<-3, -3, -3, -3>>, ADD + REPEAT, 4),
  ZeroRGB, ZeroRGB, ZeroRGB >>

gasAnimation3 == <<
  InstrN(70, <<15, 15, 15, 15, 15, 15, 15>>, LOAD, 0),
  InstrN(70, <<-1, -1, -1, -1, -1, -1, -1>>, ADD + REPEAT, 14),
  InstrN(70, << 0,  0,  0,  0,  0,  0,  0>>, LOAD, 0),
  InstrN(70, << 1,  1,  1,  1,  1,  1,  1>>, ADD + REPEAT, 14) >>

gasAnimation3RGB == <<
  InstrR(70, <<15, 15,  0,  0>>, LOAD, 0),
  InstrR(70, <<-1, -1,  1,  1>>, ADD + REPEAT, 14),
  InstrR(70, << 0,  0, 15, 15>>, LOAD, 0),
  InstrR(70, << 1,  1, -1, -1>>, ADD + REPEAT, 14) >>

gasAnimation4 == <<
  InstrN(125, << 0,  0,  0,  0,  0,  0,  0>>, LOAD, 0),
  InstrN(125, << 0,  0,  3,  0,  0,  0,  0>>, LOAD, 0),
  InstrN(125, << 0,  3,  6,  3,  0,  0,  0>>, LOAD, 0),
  InstrN(125, << 3,  6,  9,  6,  3,  0,  0>>, LOAD, 0),
  InstrN(125, << 6,  9, 12,  9,  6,  3,  0>>, LOAD, 0),
  InstrN(125, << 9, 12, 15, 12,  9,  6,  3>>, LOAD, 0),
  InstrN(125, <<12, 15, 15, 15, 12,  9,  6>>, LOAD, 0),
  InstrN(125, <<15, 15, 12, 15, 15, 12,  9>>, LOAD, 0),
  InstrN(125, <<15, 12,  9, 12, 15, 15, 12>>, LOAD, 0),
  InstrN(125, <<12,  9,  6,  9, 12, 15, 15>>, LOAD, 0),
  InstrN(125, <<-3, -3, -3, -3, -3, -3, -3>>, ADD + REPEAT, 1),
  InstrN(125, << 3,  0,  0,  0,  3,  6,  9>>, LOAD, 0),
  InstrN(125, << 0,  0,  0,  0,  0,  3,  6>>, LOAD, 0),
  InstrN(125, << 0,  0,  0,  0,  0,  0,  3>>, LOAD, 0) >>

gasAnimation4RGB == <<
  InstrR(250, << 0,  0,  0,  0>>, LOAD, 0),
  InstrR(125, << 0,  0,  3,  0>>, LOAD, 0),
  InstrR(125, << 0,  3,  6,  0>>, LOAD, 0),
  InstrR(125, << 3,  3,  3,  2>>, ADD + REPEAT, 2),
  InstrR(125, <<12, 15, 15,  8>>, LOAD, 0),
  InstrR(125, <<15, 15, 12,  8>>, LOAD, 0),
  InstrR(125, <<15, 12,  9,  8>>, LOAD, 0),
  InstrR(125, <<-3, -3, -3, -2>>, ADD + REPEAT, 2),
  InstrR(125, << 3,  0,  0,  0>>, LOAD, 0),
  InstrR(250, << 0,  0,  0,  0>>, LOAD, 0) >>

gasAnimation5 == <<
  InstrN(1525, << 0,  0,  0,  0,  0,  0,  0>>, LOAD, 0),
  InstrN(  75, << 3,  3,  3,  3,  3,  3,  3>>, ADD + REPEAT, 4),
  InstrN(  75, <<-3, -3, -3, -3, -3, -3, -3>>, ADD + REPEAT, 4),
  InstrN( 450, << 0,  0,  0,  0,  0,  0,  0>>, LOAD, 0) >>

gasAnimation5RGB == <<
  InstrR( 75, << 0,  0,  0,  0>>, LOAD, 0),
  InstrR( 75, << 3,  0,  0,  0>>, ADD + REPEAT, 4),
  InstrR( 75, <<-3,  0,  0,  0>>, ADD + REPEAT, 4),
  InstrR( 75, << 0,  3,  0,  0>>, ADD + REPEAT, 4),
  InstrR( 75, << 0, -3,  0,  0>>, ADD + REPEAT, 4),
  InstrR(750, << 0,  0,  0,  0>>, LOAD, 0),
  InstrR(450, << 0,  0, 15, 15>>, LOAD, 0) >>

gasAnimation6 == <<
  InstrN(120, << 0,  0,  0,  0,  0,  0,  0>>, LOAD, 0),
  InstrN(120, << 0,  0,  0,  0,  0,  0,  3>>, LOAD, 0),
  InstrN(120, << 0,  0,  0,  0,  0,  3,  6>>, LOAD, 0),
  InstrN(120, << 3,  0,  0,  0,  3,  6,  9>>, LOAD, 0),
  InstrN(120, << 6,  3,  0,  3,  6,  9, 12>>, LOAD, 0),
  InstrN(120, << 9,  6,  3,  6,  9, 12, 15>>, LOAD, 0),
  InstrN(120, <<12,  9,  6,  9, 12, 15, 15>>, LOAD, 0),
  InstrN(120, <<15, 12,  9, 12, 15, 15, 15>>, LOAD, 0),
  InstrN(120, <<15, 15, 12, 15, 15, 15, 15>>, LOAD, 0),
  InstrN(840, <<15, 15, 15, 15, 15, 15, 15>>, LOAD, 0) >>

gasAnimation6RGB == <<
  InstrR(120, << 0,  0,  0,  1>>, LOAD, 0),
  InstrR(120, << 0,  0,  0,  3>>, LOAD, 0),
  InstrR(120, << 0,  0,  0,  3>>, LOAD, 0),
  InstrR(120, << 0,  0,  3,  6>>, LOAD, 0),
  InstrR(120, << 0,  0,  3,  6>>, LOAD, 0),
  InstrR(120, << 0,  3,  6,  9>>, LOAD, 0),
  InstrR(120, << 0,  3,  6,  9>>, LOAD, 0),
  InstrR(120, << 3,  6,  9, 12>>, LOAD, 0),
  InstrR(120, << 6,  9, 12, 12>>, LOAD, 0),
  InstrR(840, <<12, 12, 12, 12>>, LOAD, 0) >>

gasAnimation7 == <<
  InstrN(220, <<15, 10,  5,  0,  0,  5, 10>>, LOAD, 0),
  InstrN(220, <<10, 15, 10,  5,  0,  0,  5>>, LOAD, 0),
  InstrN(220, << 5, 10, 15, 10,  5,  0,  0>>, LOAD, 0),
  InstrN(220, << 0,  5, 10, 15, 10,  5,  0>>, LOAD, 0),
  InstrN(220, << 0,  0,  5, 10, 15, 10,  5>>, LOAD, 0),
  InstrN(220, << 5,  0,  0,  5, 10, 15, 10>>, LOAD, 0),
  InstrN(110, <<10,  5,  0,  0,  5, 10, 15>>, LOAD, 0) >>

gasAnimation7RGB == <<
  InstrR(110, <<15,  0,  0, 15>>, LOAD, 0),
  InstrR(110, << 0,  5,  0, -5>>, ADD + REPEAT, 2),
  InstrR(110, <<-5,  0,  5,  0>>, ADD + REPEAT, 2),
  InstrR(110, << 0, -5,  0,  5>>, ADD + REPEAT, 2),
  InstrR(110, << 5,  0, -5,  0>>, ADD + REPEAT, 2) >>

gasBlackness == << InstrN(65535, <<0, 0, 0, 0, 0, 0, 0>>, LOAD, 0) >>

gasBlacknessRGB == << InstrR(65535, <<0, 0, 0, 0>>, LOAD, 0) >>

\* S_ANIMATION
AN(n, r) == [psInstructionsNormal |-> n, u8AnimationLengthNormal |-> Len(n),
             psInstructionsRGB |-> r, u8AnimationLengthRGB |-> Len(r)]

\* The last entry points its RGB program at gasBlackness; read through the
\* RGB instruction layout the first 8 bytes of that element are FF FF 0 0 0 0
\* 0 0, the same instruction as gasBlacknessRGB[0], and the length is taken
\* from gasBlacknessRGB.
gasAnimations == <<
  AN(gasKITT, gasKITTRGB),
  AN(gasAnimation2, gasAnimation2RGB),
  AN(gasAnimation3, gasAnimation3RGB),
  AN(gasAnimation4, gasAnimation4RGB),
  AN(gasAnimation5, gasAnimation5RGB),
  AN(gasAnimation6, gasAnimation6RGB),
  AN(gasAnimation7, gasAnimation7RGB),
  AN(gasBlackness, gasBlacknessRGB) >>

NUM_ANIMATIONS == Len(gasAnimations)

(******************************** model bounds *****************************)
\* the 16-bit millisecond clock is followed over a window of MaxTime ms that
\* starts WrapLead ms before the clock wraps from 65535 to 0
MaxTime == 1400

WrapLead == 100

ClockStart == 65536 - WrapLead

\* time that passes between two calls from the main cycle
TickDeltas == {0, 100, 1200}

\* values of the persisted animation index found at power-up: the first
\* animation and a value that is out of range
PersistedIndices == {0, 255}

\* values passed to Animation_Set: three animations of the table and the
\* first value that is out of range
SetIndices == {0, 1, 3, NUM_ANIMATIONS}

\* what a read of psInstructionsRGB[ u8AnimationLengthRGB ], one element past
\* the end of an RGB program, may deliver: the bytes that follow the table in
\* code memory are not determined by the source
OobInstructionsRGB ==
  { InstrR(0, <<200, 0, 15, 255>>, LOAD, 0),
    InstrR(100, <<3, 3, 3, 3>>, ADD + REPEAT, 1) }

(********************************** state **********************************)
VARIABLES
  gau8LEDBrightness,       \* led.c: brightness of the 7 normal LEDs
  gau8RGBLEDs,             \* rgbled.c: brightness of the 4 colour channels
  gu16NormalTimer,         \* ms timer of the normal LED animation
  gu16RGBTimer,            \* ms timer of the RGB LED animation
  gu16LastCall,            \* time of the last call of the main cycle
  u8LastState,             \* last executed instruction, normal LEDs
  u8RepetitionCounter,     \* repetition counter, normal LEDs
  u8LastStateRGB,          \* last executed instruction, RGB LED
  u8RepetitionCounterRGB,  \* repetition counter, RGB LED
  u8AnimationIndex,        \* gsPersistentData.u8AnimationIndex
  call,                    \* the call that produced this state and what it fetched
  runNormal,               \* applications of the instruction being repeated, normal LEDs
  runRGB,                  \* applications of the instruction being repeated, RGB LED
  pc,                      \* statement the main program stands at (SpecIT)
  EA,                      \* interrupts are enabled (SpecIT)
  seen                     \* brightness arrays as the last interrupts read them (SpecIT)

vars == << gau8LEDBrightness, gau8RGBLEDs, gu16NormalTimer, gu16RGBTimer,
           gu16LastCall, u8LastState, u8RepetitionCounter, u8LastStateRGB,
           u8RepetitionCounterRGB, u8AnimationIndex, call, runNormal, runRGB,
           pc, EA, seen >>

\* the variables of the statement-level specification; the other two
\* specifications take every call in one step and leave them alone
stmt == << pc, EA, seen >>

NoStmt == pc = "whole calls" /\ EA = TRUE /\ seen = "not modelled"

(************************** the virtual machine ****************************)
\* SaturateBrightness that reports the distance to 16 instead of 15
SaturateBrightnessOffByOne(x) ==
  IF I8(x) < 0 THEN [val |-> 0, ret |-> I8(x)]
  ELSE IF I8(x) > 15 THEN [val |-> 15, ret |-> I8(x) - 16]
  ELSE [val |-> x, ret |-> 0]

\* static I8 SaturateBrightness( U8* ): val is the variable afterwards, ret
\* the returned change
SaturateBrightness(x) ==
  IF I8(x) < 0 THEN [val |-> 0, ret |-> I8(x)]
  ELSE IF I8(x) > 15 THEN [val |-> 15, ret |-> I8(x) - 15]
  ELSE [val |-> x, ret |-> 0]

\* ADD that clamps to the top level instead of resetting to 0
OpAddClamp(b, v) ==
  [i \in DOMAIN b |-> IF U8(b[i] + v[i]) > 15 THEN 15 ELSE U8(b[i] + v[i])]

\* ADD: array[ i ] += operand[ i ] in U8, then reset to 0 when above 15
OpAdd(b, v) ==
  [i \in DOMAIN b |-> IF U8(b[i] + v[i]) > 15 THEN 0 ELSE U8(b[i] + v[i])]

\* RSHIFT that drops the last element instead of taking it to the front
OpRShiftDrops(b) ==
  [i \in DOMAIN b |-> IF i = 0 THEN b[0] ELSE b[i - 1]]

\* RSHIFT: the last element goes to the front
OpRShift(b) ==
  [i \in DOMAIN b |-> IF i = 0 THEN b[LEDS_NUM - 1] ELSE b[i - 1]]

\* LSHIFT that drops the first element instead of taking it to the back
OpLShiftDrops(b) ==
  [i \in DOMAIN b |-> IF i = LEDS_NUM - 1 THEN b[LEDS_NUM - 1] ELSE b[i + 1]]

\* LSHIFT: the first element goes to the back
OpLShift(b) ==
  [i \in DOMAIN b |-> IF i = LEDS_NUM - 1 THEN b[0] ELSE b[i + 1]]

\* DIV that clears the channels whose operand is 0
OpDivZeroClears(b, v) ==
  [i \in DOMAIN b |-> IF v[i] # 0 THEN b[i] \div v[i] ELSE 0]

\* DIV: array[ i ] /= operand[ i ] unless the operand is 0
OpDiv(b, v) ==
  [i \in DOMAIN b |-> IF v[i] # 0 THEN b[i] \div v[i] ELSE b[i]]

\* the inner loop of the source instructions with the returned change dropped
RECURSIVE CarryUpDrops(_, _, _)
CarryUpDrops(b, from, to) ==
  IF from >= to THEN b
  ELSE CarryUpDrops([b EXCEPT ![from] = SaturateBrightness(b[from]).val], from + 1, to)

\* for( inner = from; inner < to; inner++ ) b[ inner + 1 ] += Saturate( &b[ inner ] )
RECURSIVE CarryUp(_, _, _)
CarryUp(b, from, to) ==
  IF from >= to THEN b
  ELSE CarryUp([b EXCEPT ![from] = SaturateBrightness(b[from]).val,
                         ![from + 1] = U8(b[from + 1] + SaturateBrightness(b[from]).ret)],
               from + 1, to)

\* for( inner = from; inner > to; inner-- ) b[ inner - 1 ] += Saturate( &b[ inner ] )
RECURSIVE CarryDown(_, _, _)
CarryDown(b, from, to) ==
  IF from <= to THEN b
  ELSE CarryDown([b EXCEPT ![from] = SaturateBrightness(b[from]).val,
                           ![from - 1] = U8(b[from - 1] + SaturateBrightness(b[from]).ret)],
                 from - 1, to)

\* b[ i ] += operand[ i ]; SaturateBrightness( &b[ i ] ), the return value dropped
AddSaturate(b, v, i) ==
  [b EXCEPT ![i] = SaturateBrightness(U8(b[i] + v[i])).val]

\* USOURCE, left side: for( u8Index = from; u8Index < RIGHT_LEDS_START - 1; u8Index++ )
RECURSIVE USourceLeft(_, _, _)
USourceLeft(b, v, u8Index) ==
  IF u8Index >= RIGHT_LEDS_START - 1 THEN b
  ELSE USourceLeft(CarryUp([b EXCEPT ![u8Index] = U8(b[u8Index] + v[u8Index])],
                           u8Index, RIGHT_LEDS_START - 1),
                   v, u8Index + 1)

\* USOURCE, right side: for( u8Index = from; u8Index > RIGHT_LEDS_START; u8Index-- );
\* the inner loop always starts at LEDS_NUM - 1
RECURSIVE USourceRight(_, _, _)
USourceRight(b, v, u8Index) ==
  IF u8Index <= RIGHT_LEDS_START THEN b
  ELSE USourceRight(CarryDown([b EXCEPT ![u8Index] = U8(b[u8Index] + v[u8Index])],
                              LEDS_NUM - 1, RIGHT_LEDS_START),
                    v, u8Index - 1)

OpUSource(b, v) ==
  LET left  == AddSaturate(USourceLeft(b, v, 0), v, RIGHT_LEDS_START - 1)
      right == USourceRight(left, v, LEDS_NUM - 1)
  IN  AddSaturate(right, v, RIGHT_LEDS_START)

\* DSOURCE, left side: for( u8Index = from; u8Index > 0; u8Index-- )
RECURSIVE DSourceLeft(_, _, _)
DSourceLeft(b, v, u8Index) ==
  IF u8Index <= 0 THEN b
  ELSE DSourceLeft(CarryDown([b EXCEPT ![u8Index] = U8(b[u8Index] + v[u8Index])],
                             u8Index, 0),
                   v, u8Index - 1)

\* DSOURCE, right side: for( u8Index = from; u8Index < LEDS_NUM - 1; u8Index++ );
\* the inner loop always starts at RIGHT_LEDS_START
RECURSIVE DSourceRight(_, _, _)
DSourceRight(b, v, u8Index) ==
  IF u8Index >= LEDS_NUM - 1 THEN b
  ELSE DSourceRight(CarryUp([b EXCEPT ![u8Index] = U8(b[u8Index] + v[u8Index])],
                            RIGHT_LEDS_START, LEDS_NUM - 1),
                    v, u8Index + 1)

\* DSOURCE that carries in the direction of USOURCE
OpDSourceUpward(b, v) == OpUSource(b, v)

OpDSource(b, v) ==
  LET left  == AddSaturate(DSourceLeft(b, v, RIGHT_LEDS_START - 1), v, 0)
      right == DSourceRight(left, v, RIGHT_LEDS_START)
  IN  AddSaturate(right, v, LEDS_NUM - 1)

\* the chain with the DIV block moved in front of the ADD block
ExecNormalDivFirst(u8OpCode, v, b) ==
  LET b0 == IF HasBit(DIV, u8OpCode) THEN OpDiv(b, v) ELSE b
      b1 == IF HasBit(ADD, u8OpCode) THEN OpAdd(b0, v) ELSE b0
      b2 == IF HasBit(RSHIFT, u8OpCode) THEN OpRShift(b1) ELSE b1
      b3 == IF HasBit(LSHIFT, u8OpCode) THEN OpLShift(b2) ELSE b2
      b4 == IF HasBit(USOURCE, u8OpCode) THEN OpUSource(b3, v) ELSE b3
  IN  IF HasBit(DSOURCE, u8OpCode) THEN OpDSource(b4, v) ELSE b4

\* the chain of "if( BIT & u8OpCode )" blocks for the normal LEDs, in the order
\* of the source: ADD, RSHIFT, LSHIFT, USOURCE, DSOURCE, DIV
ExecNormal(u8OpCode, v, b) ==
  LET b1 == IF HasBit(ADD, u8OpCode) THEN OpAdd(b, v) ELSE b
      b2 == IF HasBit(RSHIFT, u8OpCode) THEN OpRShift(b1) ELSE b1
      b3 == IF HasBit(LSHIFT, u8OpCode) THEN OpLShift(b2) ELSE b2
      b4 == IF HasBit(USOURCE, u8OpCode) THEN OpUSource(b3, v) ELSE b3
      b5 == IF HasBit(DSOURCE, u8OpCode) THEN OpDSource(b4, v) ELSE b4
  IN  IF HasBit(DIV, u8OpCode) THEN OpDiv(b5, v) ELSE b5

\* the chain for the RGB LED with an RSHIFT block that rotates the channels
ExecRGBRotates(u8OpCode, v, b) ==
  LET b1 == IF HasBit(ADD, u8OpCode) THEN OpAdd(b, v) ELSE b
      b2 == IF HasBit(RSHIFT, u8OpCode)
            THEN [i \in DOMAIN b1 |-> IF i = 0 THEN b1[NUM_RGBLED_COLORS - 1] ELSE b1[i - 1]]
            ELSE b1
  IN  IF HasBit(DIV, u8OpCode) THEN OpDiv(b2, v) ELSE b2

\* the same chain for the RGB LED: the shift and source blocks are empty
ExecRGB(u8OpCode, v, b) ==
  LET b1 == IF HasBit(ADD, u8OpCode) THEN OpAdd(b, v) ELSE b
  IN  IF HasBit(DIV, u8OpCode) THEN OpDiv(b1, v) ELSE b1

(************************** timeline advancement ***************************)
\* the loop that sums u16TimingMs until the sum exceeds the timer; the result
\* is the length of the program when no instruction qualifies
RECURSIVE CalcStateFrom(_, _, _, _)
CalcStateFrom(psInstructions, timer, u8AnimationState, u16StateTimer) ==
  IF u8AnimationState >= Len(psInstructions) THEN u8AnimationState
  ELSE IF U16(u16StateTimer + psInstructions[u8AnimationState + 1].u16TimingMs) > timer
       THEN u8AnimationState
       ELSE CalcStateFrom(psInstructions, timer, u8AnimationState + 1,
                          U16(u16StateTimer + psInstructions[u8AnimationState + 1].u16TimingMs))

\* the loop that breaks in its first pass whatever the timer holds
CalcStateFirst(psInstructions, timer) == 0

\* the loop with "u16StateTimer >= timer" as the condition of the break
CalcStateInclusive(psInstructions, timer) == CalcStateFrom(psInstructions, timer - 1, 0, 0)

CalcState(psInstructions, timer) == CalcStateFrom(psInstructions, timer, 0, 0)

\* the "Repeat instruction" block with a counter that starts one too low
RepeatStepShort(instr, u8AnimationState, last, rep, timer) ==
  IF HasBit(REPEAT, instr.u8AnimationOpcode)
  THEN IF rep = 0
       THEN [last |-> last, rep |-> instr.u8AnimationOperand - 1,
             timer |-> U16(timer - instr.u16TimingMs)]
       ELSE IF rep - 1 # 0
            THEN [last |-> last, rep |-> rep - 1,
                  timer |-> U16(timer - instr.u16TimingMs)]
            ELSE [last |-> u8AnimationState, rep |-> 0, timer |-> timer]
  ELSE [last |-> u8AnimationState, rep |-> rep, timer |-> timer]

\* the "Repeat instruction" block and its else branch: the new last state,
\* repetition counter and timer
RepeatStep(instr, u8AnimationState, last, rep, timer) ==
  IF HasBit(REPEAT, instr.u8AnimationOpcode)
  THEN IF rep = 0
       THEN [last |-> last, rep |-> instr.u8AnimationOperand,
             timer |-> U16(timer - instr.u16TimingMs)]
       ELSE IF rep - 1 # 0
            THEN [last |-> last, rep |-> rep - 1,
                  timer |-> U16(timer - instr.u16TimingMs)]
            ELSE [last |-> u8AnimationState, rep |-> 0, timer |-> timer]
  ELSE [last |-> u8AnimationState, rep |-> rep, timer |-> timer]

\* the normal LED step with a LOAD branch that does not save the state
StepNormalLoadUnmarked(instr, u8AnimationState, b, last, rep, timer) ==
  IF last = u8AnimationState
  THEN [b |-> b, last |-> last, rep |-> rep, timer |-> timer, applied |-> FALSE]
  ELSE IF instr.u8AnimationOpcode = LOAD
       THEN [b |-> instr.au8Brightness, last |-> last, rep |-> rep,
             timer |-> timer, applied |-> TRUE]
       ELSE LET r == RepeatStep(instr, u8AnimationState, last, rep, timer)
            IN  [b |-> ExecNormal(instr.u8AnimationOpcode, instr.au8Brightness, b),
                 last |-> r.last, rep |-> r.rep, timer |-> r.timer, applied |-> TRUE]

\* "restart animation" that leaves the timers running
RestartTimerKept(restart, timer) == timer

\* "restart animation": gu16NormalTimer = 0u when the normal LED program is
\* exhausted
RestartTimer(restart, timer) == IF restart THEN 0 ELSE timer

\* "restart animation" that clears the timer of the normal LEDs only
RestartRGBTimerKept(restart, timer) == timer

\* "restart animation": gu16RGBTimer = 0u stands next to gu16NormalTimer = 0u
RestartRGBTimer(restart, timer) == IF restart THEN 0 ELSE timer

\* the normal LED step without the comparison with the last state
StepNormalEveryCall(instr, u8AnimationState, b, last, rep, timer) ==
  IF instr.u8AnimationOpcode = LOAD
  THEN [b |-> instr.au8Brightness, last |-> u8AnimationState, rep |-> rep,
        timer |-> timer, applied |-> TRUE]
  ELSE LET r == RepeatStep(instr, u8AnimationState, last, rep, timer)
       IN  [b |-> ExecNormal(instr.u8AnimationOpcode, instr.au8Brightness, b),
            last |-> r.last, rep |-> r.rep, timer |-> r.timer, applied |-> TRUE]

\* "if( u8LastState != u8AnimationState )" and its body, normal LEDs
StepNormal(instr, u8AnimationState, b, last, rep, timer) ==
  IF last = u8AnimationState
  THEN [b |-> b, last |-> last, rep |-> rep, timer |-> timer, applied |-> FALSE]
  ELSE IF instr.u8AnimationOpcode = LOAD
       THEN [b |-> instr.au8Brightness, last |-> u8AnimationState, rep |-> rep,
             timer |-> timer, applied |-> TRUE]
       ELSE LET r == RepeatStep(instr, u8AnimationState, last, rep, timer)
            IN  [b |-> ExecNormal(instr.u8AnimationOpcode, instr.au8Brightness, b),
                 last |-> r.last, rep |-> r.rep, timer |-> r.timer, applied |-> TRUE]

\* the RGB LED step that runs the chain of opcode blocks twice
StepRGBTwice(instr, u8AnimationState, b, last, rep, timer) ==
  IF last = u8AnimationState
  THEN [b |-> b, last |-> last, rep |-> rep, timer |-> timer, applied |-> FALSE]
  ELSE IF instr.u8AnimationOpcode = LOAD
       THEN [b |-> instr.au8Brightness, last |-> u8AnimationState, rep |-> rep,
             timer |-> timer, applied |-> TRUE]
       ELSE LET r == RepeatStep(instr, u8AnimationState, last, rep, timer)
            IN  [b |-> ExecRGB(instr.u8AnimationOpcode, instr.au8Brightness,
                               ExecRGB(instr.u8AnimationOpcode, instr.au8Brightness, b)),
                 last |-> r.last, rep |-> r.rep, timer |-> r.timer, applied |-> TRUE]

\* "if( u8LastStateRGB != u8AnimationState )" and its body, RGB LED
StepRGB(instr, u8AnimationState, b, last, rep, timer) ==
  IF last = u8AnimationState
  THEN [b |-> b, last |-> last, rep |-> rep, timer |-> timer, applied |-> FALSE]
  ELSE IF instr.u8AnimationOpcode = LOAD
       THEN [b |-> instr.au8Brightness, last |-> u8AnimationState, rep |-> rep,
             timer |-> timer, applied |-> TRUE]
       ELSE LET r == RepeatStep(instr, u8AnimationState, last, rep, timer)
            IN  [b |-> ExecRGB(instr.u8AnimationOpcode, instr.au8Brightness, b),
                 last |-> r.last, rep |-> r.rep, timer |-> r.timer, applied |-> TRUE]

(******************************* observation *******************************)
NoInstr == [u16TimingMs |-> 0, au8Brightness |-> << >>, u8AnimationOpcode |-> LOAD,
            u8AnimationOperand |-> 0]

\* The variable call records the call that produced the state: fn and arg are
\* the function and its argument (the time for Animation_Init and
\* Animation_Cycle), restart whether the normal LED program was restarted, and
\* for Animation_Cycle found is the animation index the call found on entry.

\* what a call did to one timeline: the instruction index it computed, whether
\* it executed the instruction, and the instruction it executed
Fetched(st, instr) ==
  [state |-> st.state, applied |-> st.applied,
   instr |-> IF st.applied THEN instr ELSE NoInstr]

NoFetch == [state |-> NO_STATE, applied |-> FALSE, instr |-> NoInstr]

NoRun == [k |-> NO_STATE, n |-> 0, steady |-> FALSE]

\* bookkeeping of a repetition: k is the instruction being repeated, n the
\* number of times it has been executed since it was reached with the
\* repetition counter at 0, steady whether every call since then found exactly
\* the instruction's u16TimingMs elapsed
NextRun(run, applied, instr, u8AnimationState, repBefore, repAfter, delta) ==
  IF applied /\ instr.u8AnimationOpcode # LOAD /\ HasBit(REPEAT, instr.u8AnimationOpcode)
  THEN IF repBefore = 0
       THEN [k |-> u8AnimationState, n |-> 1, steady |-> TRUE]
       ELSE IF run.k = u8AnimationState
            THEN [k |-> run.k, n |-> run.n + 1,
                  steady |-> run.steady /\ delta = instr.u16TimingMs]
            ELSE [k |-> u8AnimationState, n |-> 1, steady |-> FALSE]
  ELSE IF repAfter # 0 /\ run.k # NO_STATE
       THEN [run EXCEPT !.steady = FALSE]
       ELSE NoRun

(********************************* actions *********************************)
\* the clock has not left the window when it shows now
InWindow(d) == U16(gu16LastCall - ClockStart) + d <= MaxTime

\* state after the C start-up code and LED_Init, RGBLED_Init, Animation_Init;
\* the persisted animation index is whatever the persistence layer delivers
Init ==
  /\ gau8LEDBrightness = [i \in 0 .. (LEDS_NUM - 1) |-> 0]
  /\ gau8RGBLEDs = [i \in 0 .. (NUM_RGBLED_COLORS - 1) |-> 0]
  /\ gu16NormalTimer = 0
  /\ gu16RGBTimer = 0
  /\ gu16LastCall = ClockStart
  /\ u8LastState = NO_STATE
  /\ u8RepetitionCounter = 0
  /\ u8LastStateRGB = NO_STATE
  /\ u8RepetitionCounterRGB = 0
  /\ u8AnimationIndex \in PersistedIndices
  /\ call = [fn |-> "boot", arg |-> 0, restart |-> FALSE, normal |-> NoFetch, rgb |-> NoFetch]
  /\ runNormal = NoRun
  /\ runRGB = NoRun
  /\ NoStmt

\* void Animation_Init( void ), called when Util_GetTimerMs() returns now
Animation_Init(now) ==
  /\ gu16NormalTimer' = 0
  /\ gu16RGBTimer' = 0
  /\ gu16LastCall' = now
  /\ call' = [fn |-> "Animation_Init", arg |-> now, restart |-> FALSE,
              normal |-> NoFetch, rgb |-> NoFetch]
  /\ runNormal' = IF runNormal.k # NO_STATE /\ u8RepetitionCounter # 0
                  THEN [runNormal EXCEPT !.steady = FALSE] ELSE NoRun
  /\ runRGB' = IF runRGB.k # NO_STATE /\ u8RepetitionCounterRGB # 0
               THEN [runRGB EXCEPT !.steady = FALSE] ELSE NoRun
  /\ UNCHANGED << gau8LEDBrightness, gau8RGBLEDs, u8LastState, u8RepetitionCounter,
                  u8LastStateRGB, u8RepetitionCounterRGB, u8AnimationIndex >>

\* "Make sure not to overindex arrays" with the last animation as the fallback
ClampIndexToLast(index) == IF index >= NUM_ANIMATIONS THEN NUM_ANIMATIONS - 1 ELSE index

\* "Make sure not to overindex arrays": the animation index the call works with
ClampIndex(index) == IF index >= NUM_ANIMATIONS THEN 0 ELSE index

\* the time difference computed without the 16-bit wrap-around
ElapsedNoWrap(u16TimeNow, last) == IF u16TimeNow >= last THEN u16TimeNow - last ELSE 0

\* ( u16TimeNow - gu16LastCall ) as it is added to the U16 timers
Elapsed(u16TimeNow, last) == U16(u16TimeNow - last)

\* the body of "if( u16TimeNow != gu16LastCall )" after the index has been
\* made sure of: anim is gasAnimations[ idx ], oob what the read past the end
\* of the RGB program delivers when the RGB timeline is exhausted
CycleOn(anim, idx, now, oob) ==
  LET delta   == Elapsed(now, gu16LastCall)
      nt1     == U16(gu16NormalTimer + delta)
      rt1     == U16(gu16RGBTimer + delta)
      \* normal LEDs
      sN0     == CalcState(anim.psInstructionsNormal, nt1)
      restart == sN0 >= anim.u8AnimationLengthNormal
      sN      == IF restart THEN 0 ELSE sN0
      nt2     == RestartTimer(restart, nt1)
      rt2     == RestartRGBTimer(restart, rt1)
      iN      == anim.psInstructionsNormal[sN + 1]
      n       == StepNormal(iN, sN, gau8LEDBrightness, u8LastState,
                            u8RepetitionCounter, nt2)
      \* RGB LED
      sR      == CalcState(anim.psInstructionsRGB, rt2)
      iR      == IF sR < anim.u8AnimationLengthRGB
                 THEN anim.psInstructionsRGB[sR + 1] ELSE oob
      r       == StepRGB(iR, sR, gau8RGBLEDs, u8LastStateRGB,
                         u8RepetitionCounterRGB, rt2)
  IN  /\ u8AnimationIndex' = idx
      /\ gau8LEDBrightness' = n.b
      /\ u8LastState' = n.last
      /\ u8RepetitionCounter' = n.rep
      /\ gu16NormalTimer' = n.timer
      /\ gau8RGBLEDs' = r.b
      /\ u8LastStateRGB' = r.last
      /\ u8RepetitionCounterRGB' = r.rep
      /\ gu16RGBTimer' = r.timer
      /\ gu16LastCall' = now
      /\ call' = [fn |-> "Animation_Cycle", arg |-> now, restart |-> restart,
                  found |-> u8AnimationIndex,
                  normal |-> Fetched([state |-> sN, applied |-> n.applied], iN),
                  rgb |-> Fetched([state |-> sR, applied |-> r.applied], iR)]
      /\ runNormal' = NextRun(runNormal, n.applied, iN, sN, u8RepetitionCounter, n.rep, delta)
      /\ runRGB' = NextRun(runRGB, r.applied, iR, sR, u8RepetitionCounterRGB, r.rep, delta)

\* the body of "if( u16TimeNow != gu16LastCall )" on the table of animations
CycleBody(now, oob) ==
  CycleOn(gasAnimations[ClampIndex(u8AnimationIndex) + 1], ClampIndex(u8AnimationIndex),
          now, oob)

\* the RGB instruction index of a call at time now, as CycleBody computes it
RGBStateAt(now) ==
  LET delta   == Elapsed(now, gu16LastCall)
      idx     == ClampIndex(u8AnimationIndex)
      anim    == gasAnimations[idx + 1]
      restart == CalcState(anim.psInstructionsNormal, U16(gu16NormalTimer + delta))
                   >= anim.u8AnimationLengthNormal
  IN  CalcState(anim.psInstructionsRGB, RestartRGBTimer(restart, U16(gu16RGBTimer + delta)))

RGBFetchIsOob(now) ==
  LET idx == ClampIndex(u8AnimationIndex)
  IN  /\ RGBStateAt(now) >= gasAnimations[idx + 1].u8AnimationLengthRGB
      /\ RGBStateAt(now) # u8LastStateRGB

\* Animation_Cycle without the comparison of the time with gu16LastCall
Animation_CycleUnguarded(now) ==
  \E oob \in (IF RGBFetchIsOob(now) THEN OobInstructionsRGB ELSE {NoInstr}) :
    CycleBody(now, oob)

\* void Animation_Cycle( void ), called when Util_GetTimerMs() returns now
Animation_Cycle(now) ==
  IF now # gu16LastCall
  THEN \E oob \in (IF RGBFetchIsOob(now) THEN OobInstructionsRGB ELSE {NoInstr}) :
         CycleBody(now, oob)
  ELSE /\ call' = [fn |-> "Animation_Cycle", arg |-> now, restart |-> FALSE,
                   found |-> u8AnimationIndex,
                   normal |-> NoFetch, rgb |-> NoFetch]
       /\ UNCHANGED << gau8LEDBrightness, gau8RGBLEDs, gu16NormalTimer, gu16RGBTimer,
                       gu16LastCall, u8LastState, u8RepetitionCounter, u8LastStateRGB,
                       u8RepetitionCounterRGB, u8AnimationIndex, runNormal, runRGB >>

\* Animation_Set that forgets the RGB repetition counter
Animation_SetKeepsCounter(index) ==
  /\ IF index < NUM_ANIMATIONS
     THEN /\ u8AnimationIndex' = index
          /\ gu16NormalTimer' = 0
          /\ gu16RGBTimer' = 0
          /\ u8LastState' = NO_STATE
          /\ u8RepetitionCounter' = 0
          /\ u8LastStateRGB' = NO_STATE
          /\ u8RepetitionCounterRGB' = u8RepetitionCounterRGB
          /\ runNormal' = NoRun
          /\ runRGB' = NoRun
     ELSE UNCHANGED << u8AnimationIndex, gu16NormalTimer, gu16RGBTimer, u8LastState,
                       u8RepetitionCounter, u8LastStateRGB, u8RepetitionCounterRGB,
                       runNormal, runRGB >>
  /\ call' = [fn |-> "Animation_Set", arg |-> index, restart |-> FALSE,
              normal |-> NoFetch, rgb |-> NoFetch]
  /\ UNCHANGED << gau8LEDBrightness, gau8RGBLEDs, gu16LastCall >>

\* Animation_Set with the range check off by one
Animation_SetOffByOne(index) ==
  /\ IF index <= NUM_ANIMATIONS
     THEN /\ u8AnimationIndex' = index
          /\ gu16NormalTimer' = 0
          /\ gu16RGBTimer' = 0
          /\ u8LastState' = NO_STATE
          /\ u8RepetitionCounter' = 0
          /\ u8LastStateRGB' = NO_STATE
          /\ u8RepetitionCounterRGB' = 0
          /\ runNormal' = NoRun
          /\ runRGB' = NoRun
     ELSE UNCHANGED << u8AnimationIndex, gu16NormalTimer, gu16RGBTimer, u8LastState,
                       u8RepetitionCounter, u8LastStateRGB, u8RepetitionCounterRGB,
                       runNormal, runRGB >>
  /\ call' = [fn |-> "Animation_Set", arg |-> index, restart |-> FALSE,
              normal |-> NoFetch, rgb |-> NoFetch]
  /\ UNCHANGED << gau8LEDBrightness, gau8RGBLEDs, gu16LastCall >>

\* Animation_Set that also switches the LEDs off
Animation_SetBlanks(index) ==
  /\ IF index < NUM_ANIMATIONS
     THEN /\ u8AnimationIndex' = index
          /\ gu16NormalTimer' = 0
          /\ gu16RGBTimer' = 0
          /\ u8LastState' = NO_STATE
          /\ u8RepetitionCounter' = 0
          /\ u8LastStateRGB' = NO_STATE
          /\ u8RepetitionCounterRGB' = 0
          /\ runNormal' = NoRun
          /\ runRGB' = NoRun
          /\ gau8LEDBrightness' = [i \in 0 .. (LEDS_NUM - 1) |-> 0]
          /\ gau8RGBLEDs' = [i \in 0 .. (NUM_RGBLED_COLORS - 1) |-> 0]
     ELSE UNCHANGED << u8AnimationIndex, gu16NormalTimer, gu16RGBTimer, u8LastState,
                       u8RepetitionCounter, u8LastStateRGB, u8RepetitionCounterRGB,
                       runNormal, runRGB, gau8LEDBrightness, gau8RGBLEDs >>
  /\ call' = [fn |-> "Animation_Set", arg |-> index, restart |-> FALSE,
              normal |-> NoFetch, rgb |-> NoFetch]
  /\ UNCHANGED gu16LastCall

\* void Animation_Set( U8 u8AnimationIndex )
Animation_Set(index) ==
  /\ IF index < NUM_ANIMATIONS
     THEN /\ u8AnimationIndex' = index
          /\ gu16NormalTimer' = 0
          /\ gu16RGBTimer' = 0
          /\ u8LastState' = NO_STATE
          /\ u8RepetitionCounter' = 0
          /\ u8LastStateRGB' = NO_STATE
          /\ u8RepetitionCounterRGB' = 0
          /\ runNormal' = NoRun
          /\ runRGB' = NoRun
     ELSE UNCHANGED << u8AnimationIndex, gu16NormalTimer, gu16RGBTimer, u8LastState,
                       u8RepetitionCounter, u8LastStateRGB, u8RepetitionCounterRGB,
                       runNormal, runRGB >>
  /\ call' = [fn |-> "Animation_Set", arg |-> index, restart |-> FALSE,
              normal |-> NoFetch, rgb |-> NoFetch]
  /\ UNCHANGED << gau8LEDBrightness, gau8RGBLEDs, gu16LastCall >>

TickStep ==
  \E d \in TickDeltas :
    InWindow(d) /\ Animation_Cycle(U16(gu16LastCall + d)) /\ UNCHANGED stmt

InitStep ==
  \E d \in TickDeltas :
    InWindow(d) /\ Animation_Init(U16(gu16LastCall + d)) /\ UNCHANGED stmt

SetStep == \E index \in SetIndices : Animation_Set(index) /\ UNCHANGED stmt

Next == TickStep \/ InitStep \/ SetStep

Spec == Init /\ [][Next]_vars

(***************** one instruction on drawn brightness vectors **************)
\* Second specification: the instruction step of Animation_Cycle (StepNormal,
\* StepRGB) is applied once to brightness vectors, repetition counters and
\* instructions drawn from the sets below.  The animation tables only use
\* LOAD and ADD | REPEAT; here every opcode bit is executed.

\* brightness vectors of the normal LEDs, every element a PWM level; the RGB
\* vector drawn with one of them is its first four elements
VMBrightness ==
  { Vec(<<a, b, c, d, 7, 15, 3>>) : a \in {0, 14}, b \in {2, 14}, c \in {0, 14, 15},
                                   d \in {0, 2, 13} }

\* operand vectors of the drawn instructions, normal LEDs
VMOperands ==
  { Vec(<<x, 0, 0, 0, 0, 0, 0>>) : x \in {5, 33, 47, 48} } \cup
  { Vec(<<x, x, x, x, x, x, x>>) : x \in {0, 1, 2, 5, -3} } \cup
  { Vec(<<5, -3, 2, 0, 3, 16, 1>>), Vec(<<0, 0, 0, 0, 20, 5, 9>>),
    Vec(<<0, 6, 0, 0, 0, -9, -2>>), Vec(<<0, 0, 5, 0, 0, 0, 0>>),
    Vec(<<120, 0, 0, 0, 0, 0, 0>>) }

\* operand vectors of the drawn instructions, RGB LED
VMOperandsRGB ==
  { Vec(<<x, x, x, x>>) : x \in {0, 1, 2, 5, -3} } \cup
  { Vec(<<5, -3, 2, 0>>), Vec(<<0, 3, 16, 9>>) }

\* opcodes of the drawn instructions: every single bit and combinations
VMOpcodes ==
  { LOAD, ADD, RSHIFT, LSHIFT, DIV, USOURCE, DSOURCE, REPEAT,
    ADD + DIV, ADD + REPEAT, ADD + RSHIFT, RSHIFT + LSHIFT, ADD + LSHIFT + DIV,
    ADD + USOURCE, USOURCE + DSOURCE, DSOURCE + DIV, RSHIFT + USOURCE,
    ADD + RSHIFT + LSHIFT + USOURCE + DSOURCE + DIV + REPEAT }

\* repetition counters and scalar operands of the drawn instructions
VMCounters == {0, 1, 2}

\* u16TimingMs of the drawn instructions, and the timer they are executed at
VMTiming == 100

VMInit ==
  /\ gau8LEDBrightness \in VMBrightness
  /\ gau8RGBLEDs = [i \in 0 .. (NUM_RGBLED_COLORS - 1) |-> gau8LEDBrightness[i]]
  /\ gu16NormalTimer = VMTiming
  /\ gu16RGBTimer = VMTiming
  /\ gu16LastCall = 0
  /\ u8LastState = 0
  /\ u8RepetitionCounter \in VMCounters
  /\ u8LastStateRGB = 0
  /\ u8RepetitionCounterRGB = u8RepetitionCounter
  /\ u8AnimationIndex = 0
  /\ call = [fn |-> "draw", arg |-> 0, restart |-> FALSE, normal |-> NoFetch, rgb |-> NoFetch]
  /\ runNormal = NoRun
  /\ runRGB = NoRun
  /\ NoStmt

\* instruction 1 of a normal LED program is reached and executed
VMExecNormal(instr) ==
  LET n == StepNormal(instr, 1, gau8LEDBrightness, u8LastState, u8RepetitionCounter,
                      gu16NormalTimer)
  IN  /\ call.fn = "draw"
      /\ gau8LEDBrightness' = n.b
      /\ u8LastState' = n.last
      /\ u8RepetitionCounter' = n.rep
      /\ gu16NormalTimer' = n.timer
      /\ call' = [fn |-> "StepNormal", arg |-> 0, restart |-> FALSE,
                  normal |-> Fetched([state |-> 1, applied |-> n.applied], instr),
                  rgb |-> NoFetch]
      /\ UNCHANGED << gau8RGBLEDs, gu16RGBTimer, gu16LastCall, u8LastStateRGB,
                      u8RepetitionCounterRGB, u8AnimationIndex, runNormal, runRGB >>

\* instruction 1 of an RGB LED program is reached and executed
VMExecRGB(instr) ==
  LET r == StepRGB(instr, 1, gau8RGBLEDs, u8LastStateRGB, u8RepetitionCounterRGB,
                   gu16RGBTimer)
  IN  /\ call.fn = "draw"
      /\ gau8RGBLEDs' = r.b
      /\ u8LastStateRGB' = r.last
      /\ u8RepetitionCounterRGB' = r.rep
      /\ gu16RGBTimer' = r.timer
      /\ call' = [fn |-> "StepRGB", arg |-> 0, restart |-> FALSE,
                  normal |-> NoFetch,
                  rgb |-> Fetched([state |-> 1, applied |-> r.applied], instr)]
      /\ UNCHANGED << gau8LEDBrightness, gu16NormalTimer, gu16LastCall, u8LastState,
                      u8RepetitionCounter, u8AnimationIndex, runNormal, runRGB >>

VMNormalStep ==
  \E op \in VMOpcodes, v \in VMOperands, n \in VMCounters :
    /\ VMExecNormal([u16TimingMs |-> VMTiming, au8Brightness |-> v,
                  u8AnimationOpcode |-> op, u8AnimationOperand |-> n])
    /\ UNCHANGED stmt

VMRGBStep ==
  \E op \in VMOpcodes, v \in VMOperandsRGB, n \in VMCounters :
    /\ VMExecRGB([u16TimingMs |-> VMTiming, au8Brightness |-> v,
               u8AnimationOpcode |-> op, u8AnimationOperand |-> n])
    /\ UNCHANGED stmt

VMNext == VMNormalStep \/ VMRGBStep

SpecVM == VMInit /\ [][VMNext]_vars

(******************** programs with other timings and REPEATs ***************)
\* Sixth specification: Animation_Cycle runs programs that the virtual
\* machine accepts but the shipped table does not hold: a REPEAT instruction
\* that lasts longer than the instruction before it, and a REPEAT instruction
\* at index 0.  The main cycle calls every 1 or 2 ms, less than any
\* instruction lasts.

\* the time the programs are followed for
PrgMaxTime == 40

\* time between two calls of Animation_Cycle
PrgDeltas == {1, 2}

\* RGB program of the programs below: one LOAD that outlasts them
PrgRGB == << InstrR(1000, <<0, 0, 0, 0>>, LOAD, 0) >>

\* the instruction before the REPEAT instruction is the shorter one
PrgShortBefore == <<
  InstrN(4, <<1, 0, 0, 0, 0, 0, 0>>, LOAD, 0),
  InstrN(2, <<2, 0, 0, 0, 0, 0, 0>>, LOAD, 0),
  InstrN(4, <<0, 1, 0, 0, 0, 0, 0>>, ADD + REPEAT, 2),
  InstrN(4, <<3, 0, 0, 0, 0, 0, 0>>, LOAD, 0) >>

\* the REPEAT instruction is the first one
PrgRepeatFirst == <<
  InstrN(3, <<0, 1, 0, 0, 0, 0, 0>>, ADD + REPEAT, 1),
  InstrN(3, <<2, 0, 0, 0, 0, 0, 0>>, LOAD, 0) >>

\* laid out like the shipped programs: the instruction before the REPEAT
\* instruction lasts as long as it does
PrgShipped == <<
  InstrN(4, <<1, 0, 0, 0, 0, 0, 0>>, LOAD, 0),
  InstrN(4, <<0, 1, 0, 0, 0, 0, 0>>, ADD + REPEAT, 2),
  InstrN(4, <<3, 0, 0, 0, 0, 0, 0>>, LOAD, 0) >>

PrgAnimations == << AN(PrgShortBefore, PrgRGB), AN(PrgRepeatFirst, PrgRGB),
                    AN(PrgShipped, PrgRGB) >>

PrgInit ==
  /\ gau8LEDBrightness = [i \in 0 .. (LEDS_NUM - 1) |-> 0]
  /\ gau8RGBLEDs = [i \in 0 .. (NUM_RGBLED_COLORS - 1) |-> 0]
  /\ gu16NormalTimer = 0
  /\ gu16RGBTimer = 0
  /\ gu16LastCall = 0
  /\ u8LastState = NO_STATE
  /\ u8RepetitionCounter = 0
  /\ u8LastStateRGB = NO_STATE
  /\ u8RepetitionCounterRGB = 0
  /\ u8AnimationIndex \in 0 .. (Len(PrgAnimations) - 1)
  /\ call = [fn |-> "boot", arg |-> 0, restart |-> FALSE, normal |-> NoFetch, rgb |-> NoFetch]
  /\ runNormal = NoRun
  /\ runRGB = NoRun
  /\ NoStmt

\* Animation_Cycle on the programs above, d ms after the last call
PrgTick ==
  \E d \in PrgDeltas :
    /\ gu16LastCall + d <= PrgMaxTime
    /\ CycleOn(PrgAnimations[u8AnimationIndex + 1], u8AnimationIndex,
               gu16LastCall + d, NoInstr)
    /\ UNCHANGED stmt

PrgNext == PrgTick

SpecProg == PrgInit /\ [][PrgNext]_vars

(********************* a drawn program of shift instructions ****************)
\* Fifth specification: a program made of RSHIFT, LSHIFT and RSHIFT | LSHIFT
\* instructions is executed instruction after instruction by the instruction
\* step of Animation_Cycle (StepNormal).  call.ops holds the opcodes executed
\* so far and call.trail the brightness array at the start and after each of
\* them.

\* length of the longest program
SeqMaxLen == 7

\* opcodes of the drawn programs
SeqOpcodes == {RSHIFT, LSHIFT, RSHIFT + LSHIFT}

\* brightness arrays the programs start from
SeqBrightness ==
  { Vec(<<1, 2, 3, 4, 5, 6, 7>>), Vec(<<0, 15, 0, 15, 3, 3, 9>>),
    Vec(<<15, 0, 0, 0, 0, 0, 0>>), Vec(<<4, 4, 8, 8, 4, 4, 0>>) }

SeqInit ==
  /\ gau8LEDBrightness \in SeqBrightness
  /\ gau8RGBLEDs = [i \in 0 .. (NUM_RGBLED_COLORS - 1) |-> 0]
  /\ gu16NormalTimer = 0
  /\ gu16RGBTimer = 0
  /\ gu16LastCall = 0
  /\ u8LastState = NO_STATE
  /\ u8RepetitionCounter = 0
  /\ u8LastStateRGB = NO_STATE
  /\ u8RepetitionCounterRGB = 0
  /\ u8AnimationIndex = 0
  /\ call = [fn |-> "program", arg |-> 0, restart |-> FALSE, normal |-> NoFetch,
             rgb |-> NoFetch, ops |-> << >>, trail |-> << gau8LEDBrightness >>]
  /\ runNormal = NoRun
  /\ runRGB = NoRun
  /\ NoStmt

\* the next instruction of the program is reached and executed
SeqExec(instr) ==
  LET k == Len(call.ops)
      n == StepNormal(instr, k, gau8LEDBrightness, u8LastState, u8RepetitionCounter,
                      gu16NormalTimer)
  IN  /\ k < SeqMaxLen
      /\ gau8LEDBrightness' = n.b
      /\ u8LastState' = n.last
      /\ u8RepetitionCounter' = n.rep
      /\ gu16NormalTimer' = n.timer
      /\ call' = [fn |-> "StepNormal", arg |-> 0, restart |-> FALSE,
                  normal |-> Fetched([state |-> k, applied |-> n.applied], instr),
                  rgb |-> NoFetch,
                  ops |-> Append(call.ops, instr.u8AnimationOpcode),
                  trail |-> Append(call.trail, n.b)]
      /\ UNCHANGED << gau8RGBLEDs, gu16RGBTimer, gu16LastCall, u8LastStateRGB,
                      u8RepetitionCounterRGB, u8AnimationIndex, runNormal, runRGB >>

SeqStep ==
  \E op \in SeqOpcodes, v \in {Vec(<<0, 0, 0, 0, 0, 0, 0>>), Vec(<<5, -3, 2, 0, 3, 16, 1>>)} :
    /\ SeqExec([u16TimingMs |-> VMTiming, au8Brightness |-> v,
                u8AnimationOpcode |-> op, u8AnimationOperand |-> 0])
    /\ UNCHANGED stmt

SeqNext == SeqStep

SpecSeq == SeqInit /\ [][SeqNext]_vars

(***************************** the endless main cycle ***********************)
\* Fourth specification: the main cycle calls Animation_Cycle for ever, the
\* 16-bit clock wrapping round, with one of the persisted animations selected.

\* time between two calls of Animation_Cycle
LoopDeltas == {32, 64}

\* the persisted animation index: gasAnimation2 and the all-black animation
LoopIndices == {1, 7}

LoopInit ==
  /\ gau8LEDBrightness = [i \in 0 .. (LEDS_NUM - 1) |-> 0]
  /\ gau8RGBLEDs = [i \in 0 .. (NUM_RGBLED_COLORS - 1) |-> 0]
  /\ gu16NormalTimer = 0
  /\ gu16RGBTimer = 0
  /\ gu16LastCall = 0
  /\ u8LastState = NO_STATE
  /\ u8RepetitionCounter = 0
  /\ u8LastStateRGB = NO_STATE
  /\ u8RepetitionCounterRGB = 0
  /\ u8AnimationIndex \in LoopIndices
  /\ call = [fn |-> "boot", arg |-> 0, restart |-> FALSE, normal |-> NoFetch, rgb |-> NoFetch]
  /\ runNormal = NoRun
  /\ runRGB = NoRun
  /\ NoStmt

LoopTick ==
  \E d \in LoopDeltas : Animation_Cycle(U16(gu16LastCall + d)) /\ UNCHANGED stmt

LoopNext == LoopTick

\* what every call of Animation_Cycle does to gu16LastCall
LoopClock == \E d \in LoopDeltas : gu16LastCall' = U16(gu16LastCall + d)

\* the main cycle never stops calling Animation_Cycle: the only steps are its
\* calls, and the time of the last call goes on for ever
SpecLoop == LoopInit /\ [][LoopNext]_vars /\ WF_gu16LastCall(LoopClock)

(********************************* properties ******************************)
engine == << gau8LEDBrightness, gau8RGBLEDs, gu16NormalTimer, gu16RGBTimer,
             gu16LastCall, u8LastState, u8RepetitionCounter, u8LastStateRGB,
             u8RepetitionCounterRGB, u8AnimationIndex >>

PwmLevels == 0 .. 15

(************* Animation_Cycle statement by statement, with interrupts ******)
\* Third specification: the main program runs Animation_Cycle and
\* Animation_Set one statement at a time, and the timer interrupt that calls
\* LED_Interrupt and RGBLED_Interrupt fires between any two of its steps
\* while interrupts are enabled.  A statement that stores a U16 timer takes
\* two steps on the 8-bit core: pc.half is TRUE while the store is under way,
\* and the variable shows the new value when the statement is complete.
\* The part of Animation_Cycle for the RGB LED is taken in one step.

\* time between two calls of Animation_Cycle from the main cycle
ITDeltas == {115, 230}

\* the clock is followed from 0 to ITMaxTime
ITMaxTime == 600

\* the persisted animation index at power-up
ITIndices == {1}

\* values passed to Animation_Set
ITSetIndices == {1, NUM_ANIMATIONS}

Idle == [at |-> "idle", sect |-> "none", half |-> FALSE, now |-> 0, state |-> 0, i |-> 0]

ITGoto(label) == pc' = [pc EXCEPT !.at = label, !.half = FALSE]

ITInit ==
  /\ gau8LEDBrightness = [i \in 0 .. (LEDS_NUM - 1) |-> 0]
  /\ gau8RGBLEDs = [i \in 0 .. (NUM_RGBLED_COLORS - 1) |-> 0]
  /\ gu16NormalTimer = 0
  /\ gu16RGBTimer = 0
  /\ gu16LastCall = 0
  /\ u8LastState = NO_STATE
  /\ u8RepetitionCounter = 0
  /\ u8LastStateRGB = NO_STATE
  /\ u8RepetitionCounterRGB = 0
  /\ u8AnimationIndex \in ITIndices
  /\ call = [fn |-> "main", arg |-> 0, restart |-> FALSE, normal |-> NoFetch, rgb |-> NoFetch]
  /\ runNormal = NoRun
  /\ runRGB = NoRun
  /\ pc = Idle
  /\ EA = TRUE
  /\ seen = [led |-> gau8LEDBrightness, rgb |-> gau8RGBLEDs]

\* the instruction of the normal LEDs the running call works on
ITInstr == gasAnimations[u8AnimationIndex + 1].psInstructionsNormal[pc.state + 1]

\* U16 u16TimeNow = Util_GetTimerMs(); if( u16TimeNow != gu16LastCall )
IT_Call(now) ==
  /\ pc.at = "idle"
  /\ pc' = IF now # gu16LastCall
           THEN [at |-> "dis", sect |-> "add", half |-> FALSE, now |-> now,
                 state |-> 0, i |-> 0]
           ELSE pc
  /\ UNCHANGED << engine, call, runNormal, runRGB, EA, seen >>

\* DISABLE_IT
IT_DisableIT ==
  /\ pc.at = "dis"
  /\ EA' = FALSE
  /\ ITGoto("normalTimer")
  /\ UNCHANGED << engine, call, runNormal, runRGB, seen >>

\* gu16NormalTimer += ( u16TimeNow - gu16LastCall ) of the timer update,
\* gu16NormalTimer = 0u of the restart and of Animation_Set
IT_WriteNormalTimer ==
  /\ pc.at = "normalTimer"
  /\ IF ~pc.half
     THEN /\ pc' = [pc EXCEPT !.half = TRUE]
          /\ UNCHANGED gu16NormalTimer
     ELSE /\ gu16NormalTimer' =
               IF pc.sect = "add"
               THEN U16(gu16NormalTimer + Elapsed(pc.now, gu16LastCall))
               ELSE 0
          /\ ITGoto("rgbTimer")
  /\ UNCHANGED << gau8LEDBrightness, gau8RGBLEDs, gu16RGBTimer, gu16LastCall,
                  u8LastState, u8RepetitionCounter, u8LastStateRGB,
                  u8RepetitionCounterRGB, u8AnimationIndex, call, runNormal, runRGB,
                  EA, seen >>

\* the same statements for gu16RGBTimer
IT_WriteRGBTimer ==
  /\ pc.at = "rgbTimer"
  /\ IF ~pc.half
     THEN /\ pc' = [pc EXCEPT !.half = TRUE]
          /\ UNCHANGED gu16RGBTimer
     ELSE /\ gu16RGBTimer' =
               IF pc.sect = "add"
               THEN U16(gu16RGBTimer + Elapsed(pc.now, gu16LastCall))
               ELSE 0
          /\ ITGoto("en")
  /\ UNCHANGED << gau8LEDBrightness, gau8RGBLEDs, gu16NormalTimer, gu16LastCall,
                  u8LastState, u8RepetitionCounter, u8LastStateRGB,
                  u8RepetitionCounterRGB, u8AnimationIndex, call, runNormal, runRGB,
                  EA, seen >>

\* ENABLE_IT
IT_EnableIT ==
  /\ pc.at = "en"
  /\ EA' = TRUE
  /\ ITGoto(IF pc.sect = "add" THEN "calc"
            ELSE IF pc.sect = "restart" THEN "exec" ELSE "setRest")
  /\ UNCHANGED << engine, call, runNormal, runRGB, seen >>

\* "Make sure not to overindex arrays", the loop that calculates the state of
\* the normal LED animation and the test for the restart
IT_Calc ==
  /\ pc.at = "calc"
  /\ u8AnimationIndex' = ClampIndex(u8AnimationIndex)
  /\ LET anim == gasAnimations[ClampIndex(u8AnimationIndex) + 1]
         s    == CalcState(anim.psInstructionsNormal, gu16NormalTimer)
     IN  pc' = IF s >= anim.u8AnimationLengthNormal
               THEN [pc EXCEPT !.at = "dis", !.sect = "restart", !.state = 0]
               ELSE [pc EXCEPT !.at = "exec", !.state = s]
  /\ UNCHANGED << gau8LEDBrightness, gau8RGBLEDs, gu16NormalTimer, gu16RGBTimer,
                  gu16LastCall, u8LastState, u8RepetitionCounter, u8LastStateRGB,
                  u8RepetitionCounterRGB, call, runNormal, runRGB, EA, seen >>

\* if( u8LastState != u8AnimationState ), the opcode fetch and the LOAD branch
IT_Exec ==
  /\ pc.at = "exec"
  /\ IF u8LastState = pc.state
     THEN /\ ITGoto("rgb")
          /\ UNCHANGED << gau8LEDBrightness, u8LastState >>
     ELSE IF ITInstr.u8AnimationOpcode = LOAD
          THEN /\ gau8LEDBrightness' = ITInstr.au8Brightness
               /\ u8LastState' = pc.state
               /\ ITGoto("rgb")
          ELSE /\ pc' = [pc EXCEPT !.i = 0,
                                   !.at = IF HasBit(ADD, ITInstr.u8AnimationOpcode)
                                          THEN "add" ELSE "ops"]
               /\ UNCHANGED << gau8LEDBrightness, u8LastState >>
  /\ UNCHANGED << gau8RGBLEDs, gu16NormalTimer, gu16RGBTimer, gu16LastCall,
                  u8RepetitionCounter, u8LastStateRGB, u8RepetitionCounterRGB,
                  u8AnimationIndex, call, runNormal, runRGB, EA, seen >>

\* gau8LEDBrightness[ u8Index ] += ...au8LEDBrightness[ u8Index ];
IT_AddElement ==
  /\ pc.at = "add"
  /\ gau8LEDBrightness' =
       [gau8LEDBrightness EXCEPT
          ![pc.i] = U8(gau8LEDBrightness[pc.i] + ITInstr.au8Brightness[pc.i])]
  /\ ITGoto("fix")
  /\ UNCHANGED << gau8RGBLEDs, gu16NormalTimer, gu16RGBTimer, gu16LastCall,
                  u8LastState, u8RepetitionCounter, u8LastStateRGB,
                  u8RepetitionCounterRGB, u8AnimationIndex, call, runNormal, runRGB,
                  EA, seen >>

\* if( gau8LEDBrightness[ u8Index ] > 15u ) gau8LEDBrightness[ u8Index ] = 0u;
\* and the u8Index++ of the loop
IT_FixElement ==
  /\ pc.at = "fix"
  /\ gau8LEDBrightness' =
       [gau8LEDBrightness EXCEPT
          ![pc.i] = IF gau8LEDBrightness[pc.i] > 15 THEN 0 ELSE gau8LEDBrightness[pc.i]]
  /\ pc' = IF pc.i + 1 < LEDS_NUM
           THEN [pc EXCEPT !.at = "add", !.i = pc.i + 1]
           ELSE [pc EXCEPT !.at = "ops"]
  /\ UNCHANGED << gau8RGBLEDs, gu16NormalTimer, gu16RGBTimer, gu16LastCall,
                  u8LastState, u8RepetitionCounter, u8LastStateRGB,
                  u8RepetitionCounterRGB, u8AnimationIndex, call, runNormal, runRGB,
                  EA, seen >>

\* the blocks from "Right shift operation" to "Divide operation"
IT_OtherOps ==
  /\ pc.at = "ops"
  /\ LET op == ITInstr.u8AnimationOpcode
     IN  gau8LEDBrightness' =
           ExecNormal(IF HasBit(ADD, op) THEN op - ADD ELSE op,
                      ITInstr.au8Brightness, gau8LEDBrightness)
  /\ ITGoto("repeat")
  /\ UNCHANGED << gau8RGBLEDs, gu16NormalTimer, gu16RGBTimer, gu16LastCall,
                  u8LastState, u8RepetitionCounter, u8LastStateRGB,
                  u8RepetitionCounterRGB, u8AnimationIndex, call, runNormal, runRGB,
                  EA, seen >>

\* the "Repeat instruction" block up to the statement that steps back in time
IT_Repeat ==
  /\ pc.at = "repeat"
  /\ LET r == RepeatStep(ITInstr, pc.state, u8LastState, u8RepetitionCounter,
                         gu16NormalTimer)
     IN  /\ u8LastState' = r.last
         /\ u8RepetitionCounter' = r.rep
         /\ ITGoto(IF HasBit(REPEAT, ITInstr.u8AnimationOpcode) /\ r.rep # 0
                   THEN "rewind" ELSE "rgb")
  /\ UNCHANGED << gau8LEDBrightness, gau8RGBLEDs, gu16NormalTimer, gu16RGBTimer,
                  gu16LastCall, u8LastStateRGB, u8RepetitionCounterRGB,
                  u8AnimationIndex, call, runNormal, runRGB, EA, seen >>

\* gu16NormalTimer -= ...u16TimingMs; ("Step back in time")
IT_Rewind ==
  /\ pc.at = "rewind"
  /\ IF ~pc.half
     THEN /\ pc' = [pc EXCEPT !.half = TRUE]
          /\ UNCHANGED gu16NormalTimer
     ELSE /\ gu16NormalTimer' = U16(gu16NormalTimer - ITInstr.u16TimingMs)
          /\ ITGoto("rgb")
  /\ UNCHANGED << gau8LEDBrightness, gau8RGBLEDs, gu16RGBTimer, gu16LastCall,
                  u8LastState, u8RepetitionCounter, u8LastStateRGB,
                  u8RepetitionCounterRGB, u8AnimationIndex, call, runNormal, runRGB,
                  EA, seen >>

\* the part "For the RGB LED", in one step
IT_RGBPart ==
  /\ pc.at = "rgb"
  /\ LET anim == gasAnimations[u8AnimationIndex + 1]
         sR   == CalcState(anim.psInstructionsRGB, gu16RGBTimer)
     IN  \E oob \in (IF sR >= anim.u8AnimationLengthRGB /\ sR # u8LastStateRGB
                     THEN OobInstructionsRGB ELSE {NoInstr}) :
           LET iR == IF sR < anim.u8AnimationLengthRGB
                     THEN anim.psInstructionsRGB[sR + 1] ELSE oob
               r  == StepRGB(iR, sR, gau8RGBLEDs, u8LastStateRGB,
                             u8RepetitionCounterRGB, gu16RGBTimer)
           IN  /\ gau8RGBLEDs' = r.b
               /\ u8LastStateRGB' = r.last
               /\ u8RepetitionCounterRGB' = r.rep
               /\ gu16RGBTimer' = r.timer
  /\ ITGoto("store")
  /\ UNCHANGED << gau8LEDBrightness, gu16NormalTimer, gu16LastCall, u8LastState,
                  u8RepetitionCounter, u8AnimationIndex, call, runNormal, runRGB,
                  EA, seen >>

\* gu16LastCall = u16TimeNow; and the return
IT_Store ==
  /\ pc.at = "store"
  /\ gu16LastCall' = pc.now
  /\ pc' = Idle
  /\ UNCHANGED << gau8LEDBrightness, gau8RGBLEDs, gu16NormalTimer, gu16RGBTimer,
                  u8LastState, u8RepetitionCounter, u8LastStateRGB,
                  u8RepetitionCounterRGB, u8AnimationIndex, call, runNormal, runRGB,
                  EA, seen >>

\* Animation_Set: the range check and gsPersistentData.u8AnimationIndex = ...
IT_Set(index) ==
  /\ pc.at = "idle"
  /\ IF index < NUM_ANIMATIONS
     THEN /\ u8AnimationIndex' = index
          /\ pc' = [Idle EXCEPT !.at = "dis", !.sect = "set"]
     ELSE UNCHANGED << u8AnimationIndex, pc >>
  /\ UNCHANGED << gau8LEDBrightness, gau8RGBLEDs, gu16NormalTimer, gu16RGBTimer,
                  gu16LastCall, u8LastState, u8RepetitionCounter, u8LastStateRGB,
                  u8RepetitionCounterRGB, call, runNormal, runRGB, EA, seen >>

\* Animation_Set: the four assignments after ENABLE_IT, and the return
IT_SetRest ==
  /\ pc.at = "setRest"
  /\ u8LastState' = NO_STATE
  /\ u8RepetitionCounter' = 0
  /\ u8LastStateRGB' = NO_STATE
  /\ u8RepetitionCounterRGB' = 0
  /\ pc' = Idle
  /\ UNCHANGED << gau8LEDBrightness, gau8RGBLEDs, gu16NormalTimer, gu16RGBTimer,
                  gu16LastCall, u8AnimationIndex, call, runNormal, runRGB, EA, seen >>

\* LED_Interrupt in a period in which it drives the LEDs: it compares every
\* element of gau8LEDBrightness with gu8PWMCounter
LED_Interrupt ==
  /\ EA
  /\ seen' = [seen EXCEPT !.led = gau8LEDBrightness]
  /\ UNCHANGED << engine, call, runNormal, runRGB, pc, EA >>

\* RGBLED_Interrupt: it compares every element of gau8RGBLEDs with its counter
RGBLED_Interrupt ==
  /\ EA
  /\ seen' = [seen EXCEPT !.rgb = gau8RGBLEDs]
  /\ UNCHANGED << engine, call, runNormal, runRGB, pc, EA >>

ITCallStep ==
  \E d \in ITDeltas : gu16LastCall + d <= ITMaxTime /\ IT_Call(U16(gu16LastCall + d))

ITSetStep == \E index \in ITSetIndices : IT_Set(index)

ITNext ==
  \/ ITCallStep
  \/ ITSetStep
  \/ IT_DisableIT
  \/ IT_WriteNormalTimer
  \/ IT_WriteRGBTimer
  \/ IT_EnableIT
  \/ IT_Calc
  \/ IT_Exec
  \/ IT_AddElement
  \/ IT_FixElement
  \/ IT_OtherOps
  \/ IT_Repeat
  \/ IT_Rewind
  \/ IT_RGBPart
  \/ IT_Store
  \/ IT_SetRest
  \/ LED_Interrupt
  \/ RGBLED_Interrupt

SpecIT == ITInit /\ [][ITNext]_vars

(*************************** properties, continued **************************)

StationaryCycleChangesNothing ==
  [][(call'.fn = "Animation_Cycle" /\ call'.arg = gu16LastCall) => UNCHANGED engine]_vars

\* C2 witness: a call at the recorded time has returned in a state where an
\* instruction was still waiting to be executed on each timeline.
StationaryCycleTaken ==
  /\ call.fn = "Animation_Cycle"
  /\ call.normal.state = NO_STATE
  /\ u8LastState = NO_STATE
  /\ u8LastStateRGB = NO_STATE

\* C3: when a call of Animation_Cycle executes a LOAD instruction on a
\* timeline, that timeline's brightness array afterwards equals the
\* instruction's operand array and its last state is the instruction's index.
LoadExact ==
  call.fn = "Animation_Cycle" =>
    /\ (call.normal.applied /\ call.normal.instr.u8AnimationOpcode = LOAD) =>
         /\ gau8LEDBrightness = call.normal.instr.au8Brightness
         /\ u8LastState = call.normal.state
    /\ (call.rgb.applied /\ call.rgb.instr.u8AnimationOpcode = LOAD) =>
         /\ gau8RGBLEDs = call.rgb.instr.au8Brightness
         /\ u8LastStateRGB = call.rgb.state

\* C3 witness: one call has executed a LOAD on both timelines, the one of the
\* normal LEDs with a non-zero operand array.
LoadExecutedOnBoth ==
  /\ call.fn = "Animation_Cycle"
  /\ call.normal.applied /\ call.normal.instr.u8AnimationOpcode = LOAD
  /\ call.normal.instr.au8Brightness[0] # 0
  /\ call.rgb.applied /\ call.rgb.instr.u8AnimationOpcode = LOAD

\* what the ADD rule of the specification gives for one channel
WrapToZero(current, operand) ==
  IF current + I8(operand) \in PwmLevels THEN current + I8(operand) ELSE 0

OnlyAdd(fetch) ==
  fetch.applied /\ fetch.instr.u8AnimationOpcode \in {ADD, ADD + REPEAT}

\* C4: an instruction with the ADD bit turns each channel into current +
\* operand (operand read as signed 8-bit) when that sum is in 0 .. 15 and into
\* 0 otherwise, on both timelines.
AddWrapsToZero ==
  [][/\ OnlyAdd(call'.normal) =>
          \A i \in DOMAIN gau8LEDBrightness :
            gau8LEDBrightness'[i] =
              WrapToZero(gau8LEDBrightness[i], call'.normal.instr.au8Brightness[i])
     /\ OnlyAdd(call'.rgb) =>
          \A i \in DOMAIN gau8RGBLEDs :
            gau8RGBLEDs'[i] = WrapToZero(gau8RGBLEDs[i], call'.rgb.instr.au8Brightness[i])
    ]_vars

\* C4 witness: ADD has been executed with operand +5 on a channel that is now 0
\* (14 + 5 = 19) and operand -3 on a channel that is now 0 (2 - 3 = -1).
AddOverflowed ==
  /\ OnlyAdd(call.normal)
  /\ call.normal.instr.au8Brightness[0] = 5 /\ gau8LEDBrightness[0] = 0
  /\ call.normal.instr.au8Brightness[1] = U8(-3) /\ gau8LEDBrightness[1] = 0

IsRepeat(fetch) ==
  /\ fetch.applied
  /\ fetch.instr.u8AnimationOpcode # LOAD
  /\ HasBit(REPEAT, fetch.instr.u8AnimationOpcode)

\* the n-th execution of a repeated instruction with operand N saves the state
\* exactly when n = N + 1
CountsToN(fetch, run, last) ==
  (IsRepeat(fetch) /\ fetch.instr.u8AnimationOperand >= 1
     /\ run.steady /\ run.k = fetch.state) =>
    /\ run.n <= fetch.instr.u8AnimationOperand + 1
    /\ (last = fetch.state) <=> (run.n = fetch.instr.u8AnimationOperand + 1)

\* C5: an instruction with the REPEAT bit and operand N >= 1, reached with the
\* repetition counter at 0 and then called once per u16TimingMs, is executed
\* exactly N + 1 times before the last state becomes its index.
RepeatCount ==
  call.fn = "Animation_Cycle" =>
    /\ CountsToN(call.normal, runNormal, u8LastState)
    /\ CountsToN(call.rgb, runRGB, u8LastStateRGB)

\* C5 witness: an instruction of the RGB table with operand 2 has just been
\* executed for the third time in calls one u16TimingMs apart and is now the
\* last state.
RepeatCompleted ==
  /\ call.fn = "Animation_Cycle"
  /\ IsRepeat(call.rgb) /\ call.rgb.instr.u8AnimationOperand = 2
  /\ call.rgb.state < 6
  /\ runRGB.steady /\ runRGB.k = call.rgb.state /\ runRGB.n = 3
  /\ u8LastStateRGB = call.rgb.state

\* the excess that leaves a channel holding value after amount was added
Excess(value, amount) == value + amount - 15

\* USOURCE alone, one positive operand on channel 0, that overflows channels
\* 0, 1 and 2 and is absorbed by channel 3
SaturatesThree(fetch, b) ==
  LET v  == fetch.instr.au8Brightness
      e0 == Excess(b[0], I8(v[0]))
      e1 == Excess(b[1], e0)
      e2 == Excess(b[2], e1)
  IN  /\ fetch.applied /\ fetch.instr.u8AnimationOpcode = USOURCE
      /\ \A i \in 1 .. (LEDS_NUM - 1) : v[i] = 0
      /\ e0 > 0 /\ e1 > 0 /\ e2 > 0
      /\ b[3] + e2 <= 15

\* C6: USOURCE with a single operand on the first channel that saturates three
\* channels leaves them at 15, adds the remaining excess to the fourth channel
\* and leaves the channels beyond it unchanged.
CascadeStopsAtFourth ==
  [][SaturatesThree(call'.normal, gau8LEDBrightness) =>
       LET e0 == Excess(gau8LEDBrightness[0], I8(call'.normal.instr.au8Brightness[0]))
           e1 == Excess(gau8LEDBrightness[1], e0)
           e2 == Excess(gau8LEDBrightness[2], e1)
       IN  /\ \A i \in 0 .. 2 : gau8LEDBrightness'[i] = 15
           /\ gau8LEDBrightness'[3] = gau8LEDBrightness[3] + e2
           /\ \A i \in 4 .. (LEDS_NUM - 1) : gau8LEDBrightness'[i] = gau8LEDBrightness[i]
    ]_vars

\* C6 witness: USOURCE with operand 47 on channel 0 has filled channels 0 to 2
\* from <<0, 2, 0>> and left 2 + 4 on channel 3.
CascadeRan ==
  /\ call.fn = "StepNormal" /\ call.normal.applied
  /\ call.normal.instr.u8AnimationOpcode = USOURCE
  /\ call.normal.instr.au8Brightness = Vec(<<47, 0, 0, 0, 0, 0, 0>>)
  /\ gau8LEDBrightness = Vec(<<15, 15, 15, 6, 7, 15, 3>>)

RECURSIVE SumTiming(_, _)
SumTiming(psInstructions, k) ==
  IF k = 0 THEN 0 ELSE SumTiming(psInstructions, k - 1) + psInstructions[k].u16TimingMs

\* the animation a call of Animation_Cycle works on
ActiveAnimation ==
  gasAnimations[(IF u8AnimationIndex >= NUM_ANIMATIONS THEN 0 ELSE u8AnimationIndex) + 1]

\* the step is a call of Animation_Cycle that finds the normal LED timer at or
\* beyond the sum of all u16TimingMs of the normal LED program
FindsNormalExhausted ==
  /\ call'.fn = "Animation_Cycle"
  /\ call'.arg # gu16LastCall
  /\ U16(gu16NormalTimer + U16(call'.arg - gu16LastCall)) >=
       SumTiming(ActiveAnimation.psInstructionsNormal, ActiveAnimation.u8AnimationLengthNormal)

\* the step executes instruction 0 of the normal LED program, a LOAD
ExecutesNormalInstruction0 ==
  /\ call'.normal.applied
  /\ call'.normal.state = 0
  /\ call'.normal.instr = ActiveAnimation.psInstructionsNormal[1]
  /\ ActiveAnimation.psInstructionsNormal[1].u8AnimationOpcode = LOAD =>
       gau8LEDBrightness' = ActiveAnimation.psInstructionsNormal[1].au8Brightness

\* C7 as stated: a call that finds the normal LED program exhausted clears the
\* timer, selects instruction 0 and executes it in that call.
RestartExecutesInstruction0 ==
  [][FindsNormalExhausted =>
       /\ gu16NormalTimer' = 0
       /\ call'.normal.state = 0
       /\ ExecutesNormalInstruction0]_vars

\* C7 amended: a call that finds the normal LED program exhausted clears the
\* timer and selects instruction 0; it executes instruction 0 in that call
\* when the last state is not 0, and leaves the brightness array, the last
\* state and the repetition counter alone when the last state is already 0.
RestartExecutesUnlessLast0 ==
  [][FindsNormalExhausted =>
       /\ call'.normal.state = 0
       /\ IF u8LastState # 0
          THEN /\ ExecutesNormalInstruction0
               /\ ~ HasBit(REPEAT, call'.normal.instr.u8AnimationOpcode) =>
                    gu16NormalTimer' = 0 /\ u8LastState' = 0
          ELSE /\ ~ call'.normal.applied
               /\ gu16NormalTimer' = 0
               /\ UNCHANGED << gau8LEDBrightness, u8LastState, u8RepetitionCounter >>
    ]_vars

\* C7 witness: the call at clock time 1200 has found animation 2 exhausted,
\* reset the normal timer and executed its instruction 0, whose brightness
\* vector is now displayed.
RestartedAndExecuted ==
  /\ call.fn = "Animation_Cycle" /\ call.restart
  /\ u8AnimationIndex = 1
  /\ call.normal.applied /\ call.normal.state = 0
  /\ gau8LEDBrightness = gasAnimation2[1].au8Brightness
  /\ gu16NormalTimer = 0 /\ u8LastState = 0
  /\ gu16LastCall = 1200

\* C8: after Animation_Set with an index below NUM_ANIMATIONS the animation
\* index is that index, both timers are 0, both last states are the 0xFF
\* sentinel and both repetition counters are 0.
SetResets ==
  (call.fn = "Animation_Set" /\ call.arg < NUM_ANIMATIONS) =>
    /\ u8AnimationIndex = call.arg
    /\ gu16NormalTimer = 0 /\ gu16RGBTimer = 0
    /\ u8LastState = NO_STATE /\ u8LastStateRGB = NO_STATE
    /\ u8RepetitionCounter = 0 /\ u8RepetitionCounterRGB = 0

\* C8 witness: Animation_Set( 3 ) has returned while the RGB array holds
\* <<5, 0, 0, 0>>, which only the first of the three executions of
\* gasKITTRGB[1] leaves behind.
SetDuringRepeat ==
  /\ call.fn = "Animation_Set" /\ call.arg = 3
  /\ gau8RGBLEDs = Vec(<<5, 0, 0, 0>>)

\* C9: Animation_Set with an index of NUM_ANIMATIONS or more changes neither
\* the animation index, the timers, the last states, the repetition counters
\* nor the brightness arrays.
SetOutOfRangeIgnored ==
  [][(call'.fn = "Animation_Set" /\ call'.arg >= NUM_ANIMATIONS) => UNCHANGED engine]_vars

\* C9 witness: Animation_Set with an out-of-range index has returned while
\* animation 3 was running with a repetition pending on the RGB timeline.
SetOutOfRangeTaken ==
  /\ call.fn = "Animation_Set" /\ call.arg >= NUM_ANIMATIONS
  /\ u8AnimationIndex = 3
  /\ gu16NormalTimer # 0 /\ u8LastState # NO_STATE
  /\ u8RepetitionCounterRGB # 0

\* the blocks of the specification's order, applied to b for the bits in op
InOrder(op, v, b) ==
  LET pick(bit, f(_), x) == IF HasBit(bit, op) THEN f(x) ELSE x
      add(x) == OpAdd(x, v)
      us(x)  == OpUSource(x, v)
      ds(x)  == OpDSource(x, v)
      dv(x)  == OpDiv(x, v)
  IN  pick(DIV, dv, pick(DSOURCE, ds, pick(USOURCE, us,
        pick(LSHIFT, OpLShift, pick(RSHIFT, OpRShift, pick(ADD, add, b))))))

\* ADD then DIV on one channel, in plain arithmetic; DIV divides by the
\* operand byte read as unsigned and skips a zero operand
AddThenDiv(current, operand) ==
  IF operand = 0 THEN WrapToZero(current, operand)
  ELSE WrapToZero(current, operand) \div operand

\* C10: the bits of one opcode take effect in the order ADD, RSHIFT, LSHIFT,
\* USOURCE, DSOURCE, DIV, the REPEAT bit changing nothing in the brightness
\* array; ADD | DIV gives wrap-to-zero(current + operand) / operand.
FixedOrder ==
  [][/\ (call'.normal.applied /\ call'.normal.instr.u8AnimationOpcode # LOAD) =>
          /\ gau8LEDBrightness' =
               InOrder(call'.normal.instr.u8AnimationOpcode,
                       call'.normal.instr.au8Brightness, gau8LEDBrightness)
          /\ call'.normal.instr.u8AnimationOpcode \in {ADD + DIV, ADD + DIV + REPEAT} =>
               \A i \in DOMAIN gau8LEDBrightness :
                 gau8LEDBrightness'[i] =
                   AddThenDiv(gau8LEDBrightness[i], call'.normal.instr.au8Brightness[i])
     /\ (call'.rgb.applied
           /\ call'.rgb.instr.u8AnimationOpcode \in {ADD + DIV, ADD + DIV + REPEAT}) =>
          \A i \in DOMAIN gau8RGBLEDs :
            gau8RGBLEDs'[i] = AddThenDiv(gau8RGBLEDs[i], call'.rgb.instr.au8Brightness[i])
    ]_vars

\* C10 witness: ADD | DIV with operand 2 has turned the 7 of channel 4 into
\* (7 + 2) / 2 = 4, where DIV before ADD would give 7 / 2 + 2 = 5.
AddDivExecuted ==
  /\ call.fn = "StepNormal" /\ call.normal.applied
  /\ call.normal.instr.u8AnimationOpcode = ADD + DIV
  /\ call.normal.instr.au8Brightness[4] = 2
  /\ gau8LEDBrightness[4] = 4

\* C11: a call of Animation_Cycle never selects an RGB instruction index at or
\* beyond the length of the RGB program: when the RGB timer has passed the
\* sum of the durations the RGB timeline stays on an instruction of its table.
RGBHoldsAtLastIndex ==
  (call.fn = "Animation_Cycle" /\ call.rgb.state # NO_STATE) =>
    call.rgb.state < gasAnimations[u8AnimationIndex + 1].u8AnimationLengthRGB

\* C12: a call of Animation_Cycle at a new time that finds the animation index
\* at or above NUM_ANIMATIONS sets it to 0 and takes every instruction it
\* executes from animation 0; after any such call the index is below
\* NUM_ANIMATIONS.
ClampsIndexToFirst ==
  [][(call'.fn = "Animation_Cycle" /\ call'.arg # gu16LastCall) =>
       /\ u8AnimationIndex' < NUM_ANIMATIONS
       /\ u8AnimationIndex >= NUM_ANIMATIONS =>
            /\ u8AnimationIndex' = 0
            /\ call'.normal.applied =>
                 call'.normal.instr =
                   gasAnimations[1].psInstructionsNormal[call'.normal.state + 1]
            /\ (call'.rgb.applied
                  /\ call'.rgb.state < gasAnimations[1].u8AnimationLengthRGB) =>
                 call'.rgb.instr = gasAnimations[1].psInstructionsRGB[call'.rgb.state + 1]
    ]_vars

\* C12 witness: a call that found the persisted index out of range has
\* executed an instruction of animation 0.
ClampedIndexTaken ==
  /\ call.fn = "Animation_Cycle"
  /\ call.found >= NUM_ANIMATIONS
  /\ call.normal.applied
  /\ u8AnimationIndex = 0

\* C13: when Animation_Init has returned, both timers are 0, both last states
\* are the 0xFF sentinel and gu16LastCall is the time of the call.
InitResetsPlayback ==
  call.fn = "Animation_Init" =>
    /\ gu16NormalTimer = 0 /\ gu16RGBTimer = 0
    /\ u8LastState = NO_STATE /\ u8LastStateRGB = NO_STATE
    /\ gu16LastCall = call.arg

\* Animation_Set has just returned after storing a valid index
Selected == call.fn = "Animation_Set" /\ call.arg < NUM_ANIMATIONS

\* the call that produces the next state is Animation_Cycle at a new time
CycleAtNewTime == call'.fn = "Animation_Cycle" /\ call'.arg # gu16LastCall

\* C14 as stated: the first call of Animation_Cycle at a new time after a
\* successful Animation_Set executes instruction 0 of the selected animation
\* on both timelines, whatever time has passed since gu16LastCall.
SelectStartsAtInstruction0 ==
  [][(Selected /\ CycleAtNewTime) =>
       /\ call'.normal.applied /\ call'.normal.state = 0
       /\ call'.rgb.applied /\ call'.rgb.state = 0
    ]_vars

\* C14 amended: that call executes instruction 0 of the selected animation on a
\* timeline when the time passed since gu16LastCall is below the instruction's
\* u16TimingMs (on the normal LEDs also when it reaches the length of the
\* whole program and the animation restarts); a longer time makes the call
\* execute the later instruction that the time selects, instruction 0 skipped.
SelectStartsWhereTimePoints ==
  [][(Selected /\ CycleAtNewTime) =>
       LET anim == gasAnimations[u8AnimationIndex + 1]
           d    == Elapsed(call'.arg, gu16LastCall)
       IN  /\ (d < anim.psInstructionsNormal[1].u16TimingMs \/ call'.restart) =>
                /\ call'.normal.applied /\ call'.normal.state = 0
                /\ call'.normal.instr = anim.psInstructionsNormal[1]
           /\ (d < anim.psInstructionsRGB[1].u16TimingMs \/ call'.restart) =>
                /\ call'.rgb.applied /\ call'.rgb.state = 0
                /\ call'.rgb.instr = anim.psInstructionsRGB[1]
           /\ (d >= anim.psInstructionsNormal[1].u16TimingMs /\ ~call'.restart) =>
                call'.normal.applied /\ call'.normal.state > 0
           /\ (d >= anim.psInstructionsRGB[1].u16TimingMs /\ ~call'.restart) =>
                call'.rgb.applied /\ call'.rgb.state > 0
    ]_vars

\* C14 witness: the first call at a new time, 100 ms after start-up, has
\* executed instruction 0 of both programs of animation 3, an animation that
\* only Animation_Set can have selected.
SelectedThenStarted ==
  /\ call.fn = "Animation_Cycle" /\ gu16LastCall = U16(ClockStart + 100)
  /\ u8AnimationIndex = 3
  /\ call.normal.applied /\ call.normal.state = 0
  /\ call.rgb.applied /\ call.rgb.state = 0
  /\ gau8RGBLEDs = gasAnimation4RGB[1].au8Brightness

\* the DIV rule for one channel: d is the operand byte of the channel
DivGuarded(current, d) == IF d = 0 THEN current ELSE current \div d

HasDiv(fetch) ==
  /\ fetch.applied
  /\ fetch.instr.u8AnimationOpcode # LOAD
  /\ HasBit(DIV, fetch.instr.u8AnimationOpcode)

\* C15: an executed instruction with the DIV bit leaves every channel whose
\* operand is 0 as the other bits of the opcode left it and turns every channel
\* with a non-zero operand d into the floor of that value divided by d; with
\* DIV alone (or DIV | REPEAT) that value is the brightness before the
\* instruction.  The step completes for every operand, on both timelines.
DivZeroGuard ==
  [][/\ HasDiv(call'.normal) =>
          LET op == call'.normal.instr.u8AnimationOpcode
              v  == call'.normal.instr.au8Brightness
              b  == IF op \in {DIV, DIV + REPEAT} THEN gau8LEDBrightness
                    ELSE ExecNormal(op - DIV, v, gau8LEDBrightness)
          IN  \A i \in DOMAIN gau8LEDBrightness :
                gau8LEDBrightness'[i] = DivGuarded(b[i], v[i])
     /\ HasDiv(call'.rgb) =>
          LET op == call'.rgb.instr.u8AnimationOpcode
              v  == call'.rgb.instr.au8Brightness
              b  == IF op \in {DIV, DIV + REPEAT} THEN gau8RGBLEDs
                    ELSE ExecRGB(op - DIV, v, gau8RGBLEDs)
          IN  \A i \in DOMAIN gau8RGBLEDs : gau8RGBLEDs'[i] = DivGuarded(b[i], v[i])
    ]_vars

\* C15 witness: DIV with the operands 5, -3, 2, 0 has been executed on the RGB
\* LED: channel 2 went from 14 to 7 and channel 3, operand 0, kept its 13.
DivWithZeroOperand ==
  /\ call.fn = "StepRGB" /\ call.rgb.applied
  /\ call.rgb.instr.u8AnimationOpcode = DIV
  /\ call.rgb.instr.au8Brightness = Vec(<<5, -3, 2, 0>>)
  /\ gau8RGBLEDs[2] = 7 /\ gau8RGBLEDs[3] = 13

\* the time that has really passed between two readings of the 16-bit
\* millisecond clock that are less than 65536 ms apart
TrueElapsed(now, last) == IF now >= last THEN now - last ELSE now + 65536 - last

\* C16: a call of Animation_Cycle at a new time advances both timers by the
\* time that has really passed, also when the clock has wrapped since
\* gu16LastCall: the instruction of the normal LEDs is selected (or the restart
\* decided) with the advanced timer, a timer that is neither reset by a
\* restart nor rewound by a REPEAT holds the advanced value afterwards, and
\* gu16LastCall is the time of the call.
WrapSafeDelta ==
  [][CycleAtNewTime =>
       LET anim == gasAnimations[ClampIndex(u8AnimationIndex) + 1]
           d    == TrueElapsed(call'.arg, gu16LastCall)
           sN   == CalcState(anim.psInstructionsNormal, U16(gu16NormalTimer + d))
       IN  /\ gu16LastCall' = call'.arg
           /\ call'.restart <=> (sN >= anim.u8AnimationLengthNormal)
           /\ ~call'.restart =>
                /\ call'.normal.state = sN
                /\ call'.rgb.state = CalcState(anim.psInstructionsRGB, U16(gu16RGBTimer + d))
                /\ ~IsRepeat(call'.normal) => gu16NormalTimer' = U16(gu16NormalTimer + d)
                /\ ~IsRepeat(call'.rgb) => gu16RGBTimer' = U16(gu16RGBTimer + d)
    ]_vars

\* C16 witness: the call at clock time 0, 100 ms after the call at 65436, has
\* executed an instruction and both timers stand at 100.
TickAcrossWrap ==
  /\ call.fn = "Animation_Cycle" /\ call.normal.applied
  /\ gu16LastCall = 0
  /\ gu16NormalTimer = 100 /\ gu16RGBTimer = 100

\* what a call at a new time leaves in a timer that no REPEAT of the timer's
\* own timeline has rewound, when nothing but the time passed touches it
Advanced(timer, now, last) == U16(timer + TrueElapsed(now, last))

\* a timeline on which the call executed nothing keeps its last state, its
\* repetition counter and its brightness array
UntouchedTimelinesKept ==
  /\ ~call'.normal.applied =>
       UNCHANGED << u8LastState, u8RepetitionCounter, gau8LEDBrightness >>
  /\ ~call'.rgb.applied =>
       UNCHANGED << u8LastStateRGB, u8RepetitionCounterRGB, gau8RGBLEDs >>

\* C17 as stated: apart from the time added at the start of the call, the
\* state of a timeline is changed by its own processing only: the RGB timer
\* holds the advanced value unless an RGB REPEAT rewound it, whatever the
\* normal LED program did (restart included), and the timer of the normal LEDs
\* holds the advanced value unless its own restart or REPEAT changed it.
TimelinesIndependent ==
  [][CycleAtNewTime =>
       /\ UntouchedTimelinesKept
       /\ ~IsRepeat(call'.rgb) =>
            gu16RGBTimer' = Advanced(gu16RGBTimer, call'.arg, gu16LastCall)
       /\ ~IsRepeat(call'.normal) =>
            gu16NormalTimer' = IF call'.restart THEN 0
                               ELSE Advanced(gu16NormalTimer, call'.arg, gu16LastCall)
    ]_vars

\* C17 amended: as above, with one exception: the restart of the normal LED
\* program clears the RGB timer as well.  The normal LED processing never
\* changes the RGB last state, repetition counter or brightness, its REPEAT
\* rewinds never change the RGB timer, and the RGB processing never changes
\* the state of the normal LED timeline.
TimelinesCoupledByRestartOnly ==
  [][CycleAtNewTime =>
       /\ UntouchedTimelinesKept
       /\ ~IsRepeat(call'.rgb) =>
            gu16RGBTimer' = IF call'.restart THEN 0
                            ELSE Advanced(gu16RGBTimer, call'.arg, gu16LastCall)
       /\ ~IsRepeat(call'.normal) =>
            gu16NormalTimer' = IF call'.restart THEN 0
                               ELSE Advanced(gu16NormalTimer, call'.arg, gu16LastCall)
    ]_vars

\* C17 witness: a call has restarted the normal LED program and left the RGB
\* timer at 0 although it executed no RGB instruction.
RestartClearedRGBTimer ==
  /\ call.fn = "Animation_Cycle" /\ call.restart
  /\ ~call.rgb.applied
  /\ gu16RGBTimer = 0 /\ u8LastStateRGB = 0

\* C18: whenever LED_Interrupt or RGBLED_Interrupt fires while Animation_Cycle
\* is running, every brightness element it reads is a level in 0 .. 15.
InterruptReadsPwmLevels ==
  /\ \A i \in DOMAIN seen.led : seen.led[i] \in PwmLevels
  /\ \A i \in DOMAIN seen.rgb : seen.rgb[i] \in PwmLevels

\* C19: whenever the store of a new value into gu16NormalTimer or gu16RGBTimer
\* is under way (the time added, the reset of the restart, the reset of
\* Animation_Set, the step back of REPEAT), interrupts are disabled.
TimerUpdatesAtomic == pc.half => ~EA

\* a call of Animation_Cycle has executed instruction 0 of the normal LEDs
AppliedInstruction0 ==
  call.fn = "Animation_Cycle" /\ call.normal.applied /\ call.normal.state = 0

RepeatZeroAppliesOnce ==
  [][/\ (IsRepeat(call'.normal) /\ call'.normal.instr.u8AnimationOperand = 0
           /\ u8RepetitionCounter = 0)
          => u8LastState' = call'.normal.state
     /\ (IsRepeat(call'.rgb) /\ call'.rgb.instr.u8AnimationOperand = 0
           /\ u8RepetitionCounterRGB = 0)
          => u8LastStateRGB' = call'.rgb.state
    ]_vars

\* an executed instruction with the one opcode bit op whose operand array
\* holds a single positive entry, on channel k inside the left side, that
\* takes the channel above 15
OverflowsAt(fetch, op, b, k) ==
  LET v == fetch.instr.au8Brightness
  IN  /\ fetch.applied /\ fetch.instr.u8AnimationOpcode = op
      /\ k \in 1 .. (RIGHT_LEDS_START - 2)
      /\ I8(v[k]) > 0 /\ \A i \in DOMAIN v : i # k => v[i] = 0
      /\ Excess(b[k], I8(v[k])) > 0

\* channel k is left at 15, its neighbour to has received the excess (and is
\* cut at 15 itself), and the neighbour on the other side is unchanged
CarriedTo(fetch, b, after, k, to) ==
  LET e == Excess(b[k], I8(fetch.instr.au8Brightness[k]))
  IN  /\ after[k] = 15
      /\ after[to] = (IF b[to] + e > 15 THEN 15 ELSE b[to] + e)
      /\ after[2 * k - to] = b[2 * k - to]

\* the brightness array with the left side (channels 0 .. RIGHT_LEDS_START - 1)
\* turned round
Mirror(b) ==
  [i \in DOMAIN b |-> IF i < RIGHT_LEDS_START THEN b[RIGHT_LEDS_START - 1 - i] ELSE b[i]]

\* C22 as stated: on the left side (channels 0 .. 5, the split being between 5
\* and 6) USOURCE hands the excess of a channel to the neighbour farther from
\* the split, DSOURCE to the neighbour nearer to it.
SourcesCarryOutwardAndInward ==
  [][\A k \in 1 .. (RIGHT_LEDS_START - 2) :
       /\ OverflowsAt(call'.normal, USOURCE, gau8LEDBrightness, k) =>
            CarriedTo(call'.normal, gau8LEDBrightness, gau8LEDBrightness', k, k - 1)
       /\ OverflowsAt(call'.normal, DSOURCE, gau8LEDBrightness, k) =>
            CarriedTo(call'.normal, gau8LEDBrightness, gau8LEDBrightness', k, k + 1)
    ]_vars

\* C22 amended: USOURCE hands the excess of a channel of the left side to the
\* neighbour with the next higher index, which is the one nearer to the split;
\* DSOURCE hands it to the neighbour with the next lower index, away from the
\* split; and DSOURCE is USOURCE on the array with the left side turned round.
SourcesCarryUpAndDown ==
  [][/\ \A k \in 1 .. (RIGHT_LEDS_START - 2) :
          /\ OverflowsAt(call'.normal, USOURCE, gau8LEDBrightness, k) =>
               CarriedTo(call'.normal, gau8LEDBrightness, gau8LEDBrightness', k, k + 1)
          /\ OverflowsAt(call'.normal, DSOURCE, gau8LEDBrightness, k) =>
               CarriedTo(call'.normal, gau8LEDBrightness, gau8LEDBrightness', k, k - 1)
     /\ (call'.normal.applied /\ call'.normal.instr.u8AnimationOpcode = DSOURCE) =>
          gau8LEDBrightness' =
            Mirror(OpUSource(Mirror(gau8LEDBrightness),
                             Mirror(call'.normal.instr.au8Brightness)))
    ]_vars

\* C22 witness: DSOURCE with operand 5 on channel 2 has taken that channel from
\* 14 to 15 and put the excess of 4 on channel 1, channel 3 keeping its 13.
DSourceCarriedDown ==
  /\ call.fn = "StepNormal" /\ call.normal.applied
  /\ call.normal.instr.u8AnimationOpcode = DSOURCE
  /\ call.normal.instr.au8Brightness = Vec(<<0, 0, 5, 0, 0, 0, 0>>)
  /\ gau8LEDBrightness = Vec(<<14, 6, 15, 13, 7, 15, 3>>)

\* how many channels of b hold the level x
Count(b, x) == Cardinality({i \in DOMAIN b : b[i] = x})

\* C23: an instruction with the RSHIFT bit alone turns the normal LED array
\* into new[0] = old[6], new[i] = old[i - 1] for i in 1 .. 6, whatever its
\* operand array holds; every level occurs as often afterwards as before.
RShiftRotates ==
  [][(call'.normal.applied /\ call'.normal.instr.u8AnimationOpcode = RSHIFT) =>
       /\ gau8LEDBrightness'[0] = gau8LEDBrightness[LEDS_NUM - 1]
       /\ \A i \in 1 .. (LEDS_NUM - 1) : gau8LEDBrightness'[i] = gau8LEDBrightness[i - 1]
       /\ \A x \in PwmLevels : Count(gau8LEDBrightness', x) = Count(gau8LEDBrightness, x)
    ]_vars

\* C23 witness: RSHIFT with a non-zero operand array has turned
\* <<14, 2, 15, 13, 7, 15, 3>> into <<3, 14, 2, 15, 13, 7, 15>>.
RShiftExecuted ==
  /\ call.fn = "StepNormal" /\ call.normal.applied
  /\ call.normal.instr.u8AnimationOpcode = RSHIFT
  /\ call.normal.instr.au8Brightness = Vec(<<5, -3, 2, 0, 3, 16, 1>>)
  /\ gau8LEDBrightness = Vec(<<3, 14, 2, 15, 13, 7, 15>>)

\* the opcode bits whose blocks are empty for the RGB LED
RGBEmptyBits == {RSHIFT, LSHIFT, USOURCE, DSOURCE}

\* the opcode is made of bits of RGBEmptyBits only, and of one at least
OnlyEmptyBits(u8OpCode) ==
  /\ u8OpCode # LOAD
  /\ \A bit \in {ADD, DIV, REPEAT} : ~HasBit(bit, u8OpCode)

\* C25: an executed RGB instruction whose opcode has only RSHIFT, LSHIFT,
\* USOURCE or DSOURCE bits leaves the RGB array as it was, and with any other
\* opcode but LOAD the array is what the ADD bit and then the DIV bit make of
\* it, channel by channel.
RGBShiftAndSourceDoNothing ==
  [][(call'.rgb.applied /\ call'.rgb.instr.u8AnimationOpcode # LOAD) =>
       LET op == call'.rgb.instr.u8AnimationOpcode
           v  == call'.rgb.instr.au8Brightness
       IN  /\ OnlyEmptyBits(op) => gau8RGBLEDs' = gau8RGBLEDs
           /\ \A i \in DOMAIN gau8RGBLEDs :
                LET a == IF HasBit(ADD, op) THEN WrapToZero(gau8RGBLEDs[i], v[i])
                         ELSE gau8RGBLEDs[i]
                IN  gau8RGBLEDs'[i] = IF HasBit(DIV, op) THEN DivGuarded(a, v[i]) ELSE a
    ]_vars

\* C25 witness: RSHIFT | USOURCE with the operands 5, -3, 2, 0 has been executed
\* on the RGB LED, which still shows <<14, 2, 15, 13>>, and is the last state.
RGBShiftExecuted ==
  /\ call.fn = "StepRGB" /\ call.rgb.applied
  /\ call.rgb.instr.u8AnimationOpcode = RSHIFT + USOURCE
  /\ call.rgb.instr.au8Brightness = Vec(<<5, -3, 2, 0>>)
  /\ gau8RGBLEDs = Vec(<<14, 2, 15, 13>>)
  /\ u8LastStateRGB = 1

\* C24: LSHIFT alone gives new[6] = old[0] and new[i] = old[i + 1] for i in
\* 0 .. 5; the array after RSHIFT | LSHIFT is the array before it; after an
\* RSHIFT instruction followed by an LSHIFT instruction the array is what it
\* was before the two; and after seven RSHIFT instructions in a row it is what
\* it was before the seven.
LShiftUndoesRShift ==
  call.fn = "StepNormal" =>
    LET ops   == call.ops
        trail == call.trail
    IN  \A n \in 1 .. Len(ops) :
          /\ ops[n] = LSHIFT =>
               /\ trail[n + 1][LEDS_NUM - 1] = trail[n][0]
               /\ \A i \in 0 .. (LEDS_NUM - 2) : trail[n + 1][i] = trail[n][i + 1]
          /\ ops[n] = RSHIFT + LSHIFT => trail[n + 1] = trail[n]
          /\ (n >= 2 /\ ops[n - 1] = RSHIFT /\ ops[n] = LSHIFT) =>
               trail[n + 1] = trail[n - 1]
          /\ (n >= LEDS_NUM /\ \A j \in (n - LEDS_NUM + 1) .. n : ops[j] = RSHIFT) =>
               trail[n + 1] = trail[n - LEDS_NUM + 1]

\* C24 witness: seven RSHIFT instructions have been executed on
\* <<1, 2, 3, 4, 5, 6, 7>>, which was <<2, 3, 4, 5, 6, 7, 1>> after the sixth
\* and is <<1, 2, 3, 4, 5, 6, 7>> again.
SevenRShiftsExecuted ==
  /\ call.fn = "StepNormal"
  /\ call.ops = << RSHIFT, RSHIFT, RSHIFT, RSHIFT, RSHIFT, RSHIFT, RSHIFT >>
  /\ call.trail[7] = Vec(<<2, 3, 4, 5, 6, 7, 1>>)
  /\ gau8LEDBrightness = Vec(<<1, 2, 3, 4, 5, 6, 7>>)
  /\ u8LastState = 6

\* a call of Animation_Cycle at a new time has computed for a timeline the
\* instruction index that its last state already holds
SameInstruction(fetch, last) ==
  /\ call'.fn = "Animation_Cycle" /\ call'.arg # gu16LastCall
  /\ fetch.state = last

\* C26: a call of Animation_Cycle that computes for a timeline the index held
\* in its last state executes nothing on that timeline: brightness array,
\* repetition counter and last state stay, and the timer is the old one plus
\* the elapsed time (or 0 when the call restarted the animation).
NoBoundaryNoEffect ==
  [][/\ SameInstruction(call'.normal, u8LastState) =>
          /\ UNCHANGED << gau8LEDBrightness, u8RepetitionCounter, u8LastState >>
          /\ ~call'.normal.applied
          /\ gu16NormalTimer' = IF call'.restart THEN 0
                                ELSE U16(gu16NormalTimer + TrueElapsed(call'.arg, gu16LastCall))
     /\ SameInstruction(call'.rgb, u8LastStateRGB) =>
          /\ UNCHANGED << gau8RGBLEDs, u8RepetitionCounterRGB, u8LastStateRGB >>
          /\ ~call'.rgb.applied
          /\ gu16RGBTimer' = IF call'.restart THEN 0
                             ELSE U16(gu16RGBTimer + TrueElapsed(call'.arg, gu16LastCall))
    ]_vars

\* C26 witness: a call at a new time has found both timelines on the
\* instruction they had executed before and has left lit LEDs as they were.
StayedOnInstruction ==
  /\ call.fn = "Animation_Cycle" /\ call.arg = gu16LastCall
  /\ call.normal.state = u8LastState /\ ~call.normal.applied
  /\ call.rgb.state = u8LastStateRGB /\ ~call.rgb.applied
  /\ ~call.restart
  /\ gu16NormalTimer > 0
  /\ \E i \in DOMAIN gau8LEDBrightness : gau8LEDBrightness[i] # 0

\* C27: the instruction index at which a call of Animation_Cycle reads the
\* instruction it executes lies inside the program of the animation the call
\* works with, for the normal LEDs and for the RGB LED.
FetchInsideProgram ==
  call.fn = "Animation_Cycle" =>
    /\ call.normal.applied =>
         call.normal.state < gasAnimations[u8AnimationIndex + 1].u8AnimationLengthNormal
    /\ call.rgb.applied =>
         call.rgb.state < gasAnimations[u8AnimationIndex + 1].u8AnimationLengthRGB

\* what the instruction instr makes of the brightness array b of the normal
\* LEDs when it is executed once
OnceNormal(instr, b) ==
  IF instr.u8AnimationOpcode = LOAD THEN instr.au8Brightness
  ELSE ExecNormal(instr.u8AnimationOpcode, instr.au8Brightness, b)

\* the same for the RGB LED
OnceRGB(instr, b) ==
  IF instr.u8AnimationOpcode = LOAD THEN instr.au8Brightness
  ELSE ExecRGB(instr.u8AnimationOpcode, instr.au8Brightness, b)

\* C28: whatever time has elapsed, a call of Animation_Cycle leaves each
\* brightness array either as it was or as one execution of the instruction
\* at the index it computed makes it; the instructions between the last state
\* and that index are not executed.
OneInstructionPerCall ==
  [][(call'.fn = "Animation_Cycle" /\ call'.arg # gu16LastCall) =>
       LET anim == gasAnimations[ClampIndex(u8AnimationIndex) + 1]
           iN   == anim.psInstructionsNormal[call'.normal.state + 1]
           iR   == IF call'.rgb.state < anim.u8AnimationLengthRGB
                   THEN anim.psInstructionsRGB[call'.rgb.state + 1]
                   ELSE call'.rgb.instr
       IN  /\ gau8LEDBrightness' = IF call'.normal.applied
                                   THEN OnceNormal(iN, gau8LEDBrightness)
                                   ELSE gau8LEDBrightness
           /\ gau8RGBLEDs' = IF call'.rgb.applied THEN OnceRGB(iR, gau8RGBLEDs)
                             ELSE gau8RGBLEDs
    ]_vars

\* C28 witness: the call 1200 ms after the selection of gasAnimation4 has
\* executed instruction 9 of the normal LEDs and instruction 8 of the RGB LED,
\* which shows <<3, 0, 0, 0>> and not what the ADD instructions 3 and 7, whose
\* 125 ms lie inside the 1200 ms, would have left.
JumpedOverInstructions ==
  /\ call.fn = "Animation_Cycle" /\ u8AnimationIndex = 3
  /\ call.normal.applied /\ call.normal.state = 9
  /\ gau8LEDBrightness = Vec(<<12, 9, 6, 9, 12, 15, 15>>)
  /\ call.rgb.applied /\ call.rgb.state = 8
  /\ gu16RGBTimer = 1200 /\ u8RepetitionCounterRGB = 0
  /\ gau8RGBLEDs = Vec(<<3, 0, 0, 0>>)

\* C29: while a repetition is under way on the normal LED timeline (the
\* repetition counter is not 0), a call of Animation_Cycle executes no
\* instruction but the repeated one, and the last state keeps its value until
\* the execution that ends the repetition; this for programs with any
\* u16TimingMs before the repeated instruction.
RepetitionUninterrupted ==
  [][(call'.fn = "Animation_Cycle" /\ u8RepetitionCounter # 0) =>
       /\ call'.normal.applied => call'.normal.state = runNormal.k
       /\ \/ u8LastState' = u8LastState
          \/ /\ call'.normal.applied /\ u8RepetitionCounter' = 0
             /\ u8LastState' = runNormal.k
    ]_vars

\* the timer of a timeline as the REPEAT block of a call finds it: the old
\* value plus the elapsed time, or 0 after a restart
TimerAtRepeat(timer) ==
  IF call'.restart THEN 0
  ELSE U16(timer + TrueElapsed(call'.arg, gu16LastCall))

\* the execution steps back in time: the instruction has the REPEAT bit and
\* the repetition counter was not at its last count
Rewinds(fetch, rep) == call'.fn = "Animation_Cycle" /\ IsRepeat(fetch) /\ rep # 1

\* C30: when the REPEAT block takes an instruction's u16TimingMs off a timer,
\* the timer holds at least that much, so the new value is the plain
\* difference; this also for a REPEAT instruction at index 0.
RewindNeverUnderflows ==
  [][/\ Rewinds(call'.normal, u8RepetitionCounter) =>
          /\ TimerAtRepeat(gu16NormalTimer) >= call'.normal.instr.u16TimingMs
          /\ gu16NormalTimer' =
               TimerAtRepeat(gu16NormalTimer) - call'.normal.instr.u16TimingMs
     /\ Rewinds(call'.rgb, u8RepetitionCounterRGB) =>
          /\ TimerAtRepeat(gu16RGBTimer) >= call'.rgb.instr.u16TimingMs
          /\ gu16RGBTimer' = TimerAtRepeat(gu16RGBTimer) - call'.rgb.instr.u16TimingMs
    ]_vars

\* C31: a repetition counter is not 0 only in the middle of a repetition: when
\* a call of Animation_Cycle has executed an instruction without the REPEAT
\* bit on a timeline, no repetition is under way and that timeline's counter
\* is 0, and when a call has restarted the normal LED program, the counter of
\* the normal timeline is 0, so that the next REPEAT instruction is reached
\* for its first execution with the counter at 0.
CounterZeroUnlessRepeating ==
  call.fn = "Animation_Cycle" =>
    /\ (call.normal.applied /\ ~IsRepeat(call.normal)) => u8RepetitionCounter = 0
    /\ (call.rgb.applied /\ ~IsRepeat(call.rgb)) => u8RepetitionCounterRGB = 0
    /\ call.restart => u8RepetitionCounter = 0


\* C32: Animation_Set leaves both brightness arrays and gu16LastCall as they
\* were. A brightness array changes only in a call of Animation_Cycle at a new
\* time that executes an instruction fetched for the animation the index
\* selects, and the first such call after a successful Animation_Set executes
\* an instruction on both timelines, for the animation that was selected.
SetLeavesBrightness ==
  [][ /\ call'.fn = "Animation_Set" =>
           UNCHANGED << gau8LEDBrightness, gau8RGBLEDs, gu16LastCall >>
      /\ (gau8LEDBrightness' # gau8LEDBrightness \/ gau8RGBLEDs' # gau8RGBLEDs) =>
           /\ call'.fn = "Animation_Cycle"
           /\ call'.arg # gu16LastCall
           /\ call'.found = u8AnimationIndex
      /\ gau8LEDBrightness' # gau8LEDBrightness =>
           /\ call'.normal.applied
           /\ call'.normal.instr =
                gasAnimations[ClampIndex(u8AnimationIndex) + 1].psInstructionsNormal[call'.normal.state + 1]
      /\ gau8RGBLEDs' # gau8RGBLEDs => call'.rgb.applied
      /\ ( /\ call.fn = "Animation_Set"
           /\ call.arg < NUM_ANIMATIONS
           /\ call'.fn = "Animation_Cycle"
           /\ call'.arg # gu16LastCall ) =>
           /\ call'.found = call.arg
           /\ call'.normal.applied
           /\ call'.rgb.applied
    ]_vars

\* C32 witness: animation 1 has been selected while the LEDs show what
\* animation 3 left after 1200 ms; the arrays and the time of the last call
\* are those of that call of Animation_Cycle
SetKeptBrightness ==
  /\ call.fn = "Animation_Set"
  /\ call.arg = 1
  /\ u8AnimationIndex = 1
  /\ gu16NormalTimer = 0
  /\ u8LastState = NO_STATE
  /\ gau8LEDBrightness = Vec(<<12, 9, 6, 9, 12, 15, 15>>)
  /\ gau8RGBLEDs = Vec(<<3, 0, 0, 0>>)
  /\ gu16LastCall = U16(ClockStart + 1200)


\* sum of f[lo] .. f[hi]
RECURSIVE ArcSum(_, _, _)
ArcSum(f, lo, hi) == IF lo > hi THEN 0 ELSE f[lo] + ArcSum(f, lo + 1, hi)

\* the operands as the signed values the code adds
Signed(v) == [i \in DOMAIN v |-> I8(v[i])]

\* no value the source instruction computes on the channels lo .. hi leaves
\* the range of an I8: the channels start within 0 .. 15 and can gain at most
\* the positive operands and lose at most the negative ones
FitsI8(b, v, lo, hi) ==
  /\ \A i \in lo .. hi : b[i] \in 0 .. 15
  /\ 15 + ArcSum([i \in DOMAIN v |-> IF I8(v[i]) > 0 THEN I8(v[i]) ELSE 0], lo, hi) <= 127
  /\ ArcSum([i \in DOMAIN v |-> IF I8(v[i]) < 0 THEN I8(v[i]) ELSE 0], lo, hi) >= -128

\* what the channels lo .. hi hold less after the instruction than they held
\* before plus their operands
Loss(b, v, after, lo, hi) ==
  ArcSum(b, lo, hi) + ArcSum(Signed(v), lo, hi) - ArcSum(after, lo, hi)

\* a loss can only have been cut off at the channel last: that channel is at
\* 15 when brightness was lost and at 0 when brightness was gained
CutAt(after, last, loss) ==
  /\ loss > 0 => after[last] = 15
  /\ loss < 0 => after[last] = 0

\* C33: USOURCE and DSOURCE conserve the brightness of each side. With
\* operands for which every value fits an I8, the channels 0 .. 5 hold
\* afterwards their sum before plus the sum of their operands minus what the
\* last SaturateBrightness of that side cut off, which is at channel 5 for
\* USOURCE and at channel 0 for DSOURCE; channel 6, the right side, holds its
\* value plus its operand cut to 0 .. 15, whatever the left side was given.
SourceConservesBrightness ==
  [][\A op \in {USOURCE, DSOURCE} :
       LET b     == gau8LEDBrightness
           after == gau8LEDBrightness'
           v     == call'.normal.instr.au8Brightness
           last  == IF op = USOURCE THEN RIGHT_LEDS_START - 1 ELSE 0
           left  == IF op = USOURCE THEN USourceLeft(b, v, 0)
                    ELSE DSourceLeft(b, v, RIGHT_LEDS_START - 1)
       IN  ( /\ call'.normal.applied
             /\ call'.normal.instr.u8AnimationOpcode = op
             /\ FitsI8(b, v, 0, RIGHT_LEDS_START - 1)
             /\ FitsI8(b, v, RIGHT_LEDS_START, LEDS_NUM - 1) ) =>
             /\ \A i \in DOMAIN after : after[i] \in 0 .. 15
             /\ Loss(b, v, after, 0, RIGHT_LEDS_START - 1) =
                  SaturateBrightness(U8(left[last] + v[last])).ret
             /\ CutAt(after, last, Loss(b, v, after, 0, RIGHT_LEDS_START - 1))
             /\ Loss(b, v, after, RIGHT_LEDS_START, LEDS_NUM - 1) =
                  SaturateBrightness(U8(b[LEDS_NUM - 1] + v[LEDS_NUM - 1])).ret
             /\ CutAt(after, LEDS_NUM - 1, Loss(b, v, after, RIGHT_LEDS_START, LEDS_NUM - 1))
    ]_vars

\* C33 witness: USOURCE with the operands 20, 5 and 9 on the channels 4, 5 and
\* 6 has run on 14, 14, 15, 13, 7, 15, 3: channel 4 is full and has handed 12
\* to channel 5, where 17 were cut off, and channel 6 holds 3 + 9.
USourceCutAtLastChannel ==
  /\ call.fn = "StepNormal"
  /\ call.normal.applied
  /\ call.normal.instr.u8AnimationOpcode = USOURCE
  /\ call.normal.instr.au8Brightness = Vec(<<0, 0, 0, 0, 20, 5, 9>>)
  /\ gau8LEDBrightness = Vec(<<14, 14, 15, 13, 15, 15, 12>>)

====
